---- MODULE Spec2Model ----
(***************************************************************************)
(* A model of parsec, a terminal file browser: the bubbletea event loop of *)
(* main.go (model.Update and the commands it issues), the file list and    *)
(* summary panes of package ui, and the Walker of package utils.           *)
(*                                                                         *)
(* Names are TLA+ strings; Chars gives the characters of a name, so that   *)
(* the character-level functions (HasPrefix, filepath.Ext, ToLower, fuzzy  *)
(* matching) are computed rather than assumed.  A directory path is the    *)
(* sequence of its components: <<>> is "/", <<"r">> is "/r".               *)
(***************************************************************************)
EXTENDS Integers, Sequences, FiniteSets, Bags, TLC

VARIABLES
    \* main.go: model
    currentDir, selectedPath, searchMode, searchQuery, allFiles, filteredFiles,
    width, height,
    \* ui.FileListModel
    files, cursor, showDirs, flWidth, flHeight,
    \* ui.SummaryModel
    summary, content, isLoading, scrollPos, smWidth, smHeight,
    \* the bubbletea runtime: commands running in goroutines, tea.Quit received
    inflight, quit,
    \* which branch of Update handled the last message
    lastEvent,
    \* utils.Walker.files, shared by every ListDirectory call, and the calls
    wfiles, calls,
    \* the file system: the directories os.ReadDir fails on
    unreadable,
    \* core.Summarizer on a .json file: the document json.Unmarshal yields,
    \* and the results of the successive SummarizeFile calls on the file
    jsonData, summaries,
    \* core.Summarizer on any file: the file SummarizeFile is called on, and
    \* the call (where it stands, the FileSummary it builds, what it invoked)
    srcFile, sumCall

vars == <<currentDir, selectedPath, searchMode, searchQuery, allFiles, filteredFiles,
          width, height, files, cursor, showDirs, flWidth, flHeight,
          summary, content, isLoading, scrollPos, smWidth, smHeight,
          inflight, quit, lastEvent, wfiles, calls, unreadable,
          jsonData, summaries, srcFile, sumCall>>

ctlVars == <<currentDir, selectedPath, searchMode, searchQuery, allFiles, filteredFiles,
             width, height, files, cursor, showDirs, flWidth, flHeight,
             summary, content, isLoading, scrollPos, smWidth, smHeight,
             inflight, quit, lastEvent>>

walkerVars == <<wfiles, calls>>

jsonVars == <<jsonData, summaries>>

sumVars == <<srcFile, sumCall>>

----------------------------------------------------------------------------
(* Bounds of the model *)

\* commands in flight at one time in Spec and SearchSpec (the code has no cap)
MaxInflight == 1
\* commands in flight at one time in NavSpec
MaxNavInflight == 1
\* length of the search query (the code has no cap)
MaxQuery == 2
\* ListDirectory calls one Walker serves in a run of WalkerSpec
MaxCalls == 2
\* commands in flight at one time in SelectSpec
MaxSelInflight == 3
\* commands in flight at one time in StaleSpec
MaxStaleInflight == 2
\* characters typed into the query when the command characters are typed
MaxTyped == 1
\* SummarizeFile calls on the one .json file
MaxSummaries == 2

----------------------------------------------------------------------------
(* main.go: UI dimension constants, and the window initialModel assumes *)

headerHeight == 1
footerHeight == 1
borderWidth == 2
borderHeight == 2
initialWidth == 80
initialHeight == 24

----------------------------------------------------------------------------
(* Strings *)

Chars ==
    ".h" :> <<".","h">> @@
    "a.go" :> <<"a",".","g","o">> @@
    "m.go" :> <<"m",".","g","o">> @@
    "m.py" :> <<"m",".","p","y">> @@
    "m.js" :> <<"m",".","j","s">> @@
    "m.rs" :> <<"m",".","r","s">> @@
    "m.cpp" :> <<"m",".","c","p","p">> @@
    "t.txt" :> <<"t",".","t","x","t">> @@
    "c.yaml" :> <<"c",".","y","a","m","l">> @@
    "c.json" :> <<"c",".","j","s","o","n">> @@
    "c.ini" :> <<"c",".","i","n","i">> @@
    ".env" :> <<".","e","n","v">> @@
    "M.java" :> <<"M",".","j","a","v","a">> @@
    "tool" :> <<"t","o","o","l">> @@
    "m.ts" :> <<"m",".","t","s">> @@
    "m.java" :> <<"m",".","j","a","v","a">> @@
    "m.c" :> <<"m",".","c">> @@
    "m.cc" :> <<"m",".","c","c">> @@
    "n.md" :> <<"n",".","m","d">> @@
    "n.markdown" :> <<"n",".","m","a","r","k","d","o","w","n">> @@
    "n.rst" :> <<"n",".","r","s","t">> @@
    "c.env" :> <<"c",".","e","n","v">> @@
    "d.xml" :> <<"d",".","x","m","l">> @@
    "d.csv" :> <<"d",".","c","s","v">> @@
    "d.log" :> <<"d",".","l","o","g">> @@
    "parsec" :> <<"p","a","r","s","e","c">> @@
    "b.MD" :> <<"b",".","M","D">> @@
    "bq" :> <<"b","q">> @@
    "build" :> <<"b","u","i","l","d">> @@
    "d" :> <<"d">> @@
    "dist" :> <<"d","i","s","t">> @@
    "u" :> <<"u">> @@
    "vendor" :> <<"v","e","n","d","o","r">> @@
    "r" :> <<"r">> @@
    ".." :> <<".",".">>

\* strings.ToLower on one character (the upper-case letters the names use)
LowerChar(c) ==
    CASE c = "M" -> "m"
      [] c = "D" -> "d"
      [] OTHER -> c

ToLower(s) == [i \in 1..Len(s) |-> LowerChar(s[i])]

HasPrefix(s, p) == Len(s) >= Len(p) /\ SubSeq(s, 1, Len(p)) = p

\* filepath.Ext: the suffix that starts at the last dot, empty without a dot
Ext(s) ==
    LET dots == {i \in 1..Len(s) : s[i] = "."}
    IN  IF dots = {} THEN <<>>
        ELSE SubSeq(s, CHOOSE i \in dots : \A j \in dots : j <= i, Len(s))

----------------------------------------------------------------------------
(* The file system the program runs on *)

basePath == <<"r">>

\* os.ReadDir: the children of each directory, sorted by file name
Tree ==
    <<>> :> <<"r">> @@
    <<"r">> :> <<".h", "a.go", "b.MD", "bq", "d", "u", "vendor">> @@
    <<"r", "d">> :> <<"a.go", "build", "dist", "u">> @@
    <<"r", "d", "u">> :> <<>> @@
    <<"r", "u">> :> <<>> @@
    <<"r", "vendor">> :> <<>> @@
    <<"r", "d", "dist">> :> <<>>

\* the sets of directories os.ReadDir cannot read (permission denied) the
\* program is run on: one subdirectory, or the start directory as well
UnreadableSets == {{<<"r", "u">>}, {<<"r">>, <<"r", "u">>}}

\* files with an execute permission bit
ExecBit == {<<"r", "bq">>}

\* os.Stat: the size in bytes of each file
FileSize ==
    <<"r", ".h">> :> 0 @@ <<"r", "a.go">> :> 300 @@ <<"r", "b.MD">> :> 40 @@
    <<"r", "bq">> :> 900 @@ <<"r", "d", "a.go">> :> 20 @@ <<"r", "d", "build">> :> 0

\* lines the extraction sections of a file's summary take when formatted
\* (functions, imports, headers, help text, ...), the final newline included
SectionLines ==
    <<"r", ".h">> :> 1 @@ <<"r", "a.go">> :> 12 @@ <<"r", "b.MD">> :> 4 @@
    <<"r", "bq">> :> 3 @@ <<"r", "d", "a.go">> :> 2 @@ <<"r", "d", "build">> :> 1

Join(dir, name) == Append(dir, name)

\* filepath.Dir
Dir(p) == IF p = <<>> THEN <<>> ELSE SubSeq(p, 1, Len(p) - 1)

IsDirPath(p) == p \in DOMAIN Tree

Exists(p) == IsDirPath(p) \/ (p # <<>> /\ IsDirPath(Dir(p)) /\
                \E i \in 1..Len(Tree[Dir(p)]) : Tree[Dir(p)][i] = p[Len(p)])

\* a nil pointer
Nil == [nil |-> TRUE]

\* the names in a directory: when a file is put there to be summarized, the
\* start directory holds just that file
Entries(p) == IF p = basePath /\ srcFile # Nil THEN <<srcFile.name>> ELSE Tree[p]

\* os.ReadDir(p): err when p is no readable directory
ReadDir(p) ==
    IF IsDirPath(p) /\ p \notin unreadable
    THEN [err |-> FALSE, entries |-> Entries(p)]
    ELSE [err |-> TRUE, entries |-> <<>>]

\* filepath.Rel(base, target) for clean absolute paths: ".." for every
\* component of base past the common prefix, then the rest of target
RECURSIVE CommonLen(_, _)
CommonLen(a, b) ==
    IF a # <<>> /\ b # <<>> /\ Head(a) = Head(b)
    THEN 1 + CommonLen(Tail(a), Tail(b)) ELSE 0

Rel(base, target) ==
    LET n == CommonLen(base, target)
    IN  [i \in 1..(Len(base) - n) |-> ".."] \o SubSeq(target, n + 1, Len(target))

\* filepath.Join(base, rel) with the result cleaned
RECURSIVE JoinClean(_, _)
JoinClean(base, rel) ==
    IF rel = <<>> THEN base
    ELSE IF Head(rel) = ".." THEN JoinClean(Dir(base), Tail(rel))
    ELSE JoinClean(Append(base, Head(rel)), Tail(rel))

----------------------------------------------------------------------------
(* utils: FileInfo, ListDirectory, IsSourceFile, IsExecutableFile *)

SupportedExtensions == {
    <<".","g","o">>, <<".","p","y">>, <<".","r","s">>, <<".","j","s">>, <<".","t","s">>,
    <<".","j","s","x">>, <<".","t","s","x">>, <<".","j","a","v","a">>, <<".","c">>,
    <<".","c","p","p">>, <<".","h">>, <<".","h","p","p">>, <<".","c","s">>,
    <<".","p","h","p">>, <<".","r","b">>, <<".","s","w","i","f","t">>, <<".","k","t">>,
    <<".","s","c","a","l","a">>, <<".","m","d">>,
    <<".","m","a","r","k","d","o","w","n">>, <<".","t","x","t">>, <<".","r","s","t">>,
    <<".","j","s","o","n">>, <<".","y","a","m","l">>, <<".","y","m","l">>,
    <<".","t","o","m","l">>, <<".","i","n","i">>, <<".","c","f","g">>,
    <<".","c","o","n","f">>, <<".","e","n","v">>,
    <<".","p","r","o","p","e","r","t","i","e","s">>, <<".","x","m","l">>,
    <<".","c","s","v">>, <<".","l","o","g">>, <<".","s","h">>, <<".","b","a","s","h">>,
    <<".","z","s","h">>, <<".","f","i","s","h">>, <<".","p","s","1">>,
    <<".","b","a","t">>, <<".","c","m","d">>}

skipDirs == {"node_modules", "vendor", "target", "build", "dist", ".git"}

FileInfo(name, isDir) ==
    [Path |-> name, Extension |-> ToLower(Ext(Chars[name])), IsDir |-> isDir]

parentInfo == [Path |-> "..", Extension |-> <<>>, IsDir |-> TRUE]

\* one round of ListDirectory's loop: the entry is skipped or becomes a FileInfo
SkipsEntry(dirPath, name) ==
    \/ HasPrefix(Chars[name], <<".">>)
    \/ IsDirPath(Join(dirPath, name)) /\ name \in skipDirs

AddsParent(dirPath) == dirPath # basePath

RECURSIVE ListEntries(_, _)
ListEntries(dirPath, names) ==
    IF names = <<>> THEN <<>>
    ELSE (IF SkipsEntry(dirPath, Head(names)) THEN <<>>
          ELSE <<FileInfo(Head(names), IsDirPath(Join(dirPath, Head(names))))>>)
         \o ListEntries(dirPath, Tail(names))

\* Walker.ListDirectory when no other call touches the Walker
ListDirectory(dirPath) ==
    LET rd == ReadDir(dirPath)
    IN  IF rd.err THEN [files |-> <<>>, err |-> TRUE]
        ELSE [files |-> (IF AddsParent(dirPath) THEN <<parentInfo>> ELSE <<>>)
                         \o ListEntries(dirPath, rd.entries),
              err |-> FALSE]

IsSourceFile(filename) == ToLower(Ext(Chars[filename])) \in SupportedExtensions

\* on a Unix-like system: os.Stat succeeds and an execute bit is set
IsExecutableFile(filePath) == Exists(filePath) /\ filePath \in ExecBit

----------------------------------------------------------------------------
(* Values *)

\* The texts the summary pane can hold, by kind; LineCount is the number of
\* lines strings.Split(content, "\n") gives for each
InitialContent == [kind |-> "initial"]
NoFileSelected == [kind |-> "nofile"]
loadingText == [kind |-> "loading"]
ParentContent(relParentPath) == [kind |-> "parent", path |-> relParentPath]
UnsupportedContent(name) == [kind |-> "unsupported", name |-> name]
PreviewErrorContent(dirName) == [kind |-> "previewError", dirName |-> dirName]

\* the commands Update returns; the runtime runs each in a goroutine
LoadFilesCmd(dirPath) == [type |-> "load", dir |-> dirPath]
SummarizeFileCmd(filePath, selPath) ==
    [type |-> "summarize", filePath |-> filePath, selectedPath |-> selPath]
PreviewCmd(dir, dirName) == [type |-> "preview", dir |-> dir, dirName |-> dirName]

----------------------------------------------------------------------------
(* Keys: tea.KeyMsg as its Type and its String() *)

\* tea.WindowSizeMsg: the window initialModel assumes, a window of nine
\* rows, and a window without size
WindowSizes == {[Width |-> initialWidth, Height |-> initialHeight],
                [Width |-> initialWidth, Height |-> 9],
                [Width |-> 0, Height |-> 0]}

\* single printable characters; j k q r t / are commands while Browsing
RuneChars == {"q", "r", "/", "d"}

SpecialKeys == {"esc", "enter", "backspace", "up", "down", "home", "end",
                "pgup", "pgdown", "ctrl+c"}

Keys == [Type : {"runes"}, Str : RuneChars]
        \cup {[Type |-> t, Str |-> t] : t \in SpecialKeys}

\* the printable characters that are commands while Browsing
CommandChars == {"q", "r", "t", "j", "k", "/"}

\* the keys pressed along with them: the three search-mode keys and three of
\* the keys that are not printable
CommandSpecialKeys == {"esc", "enter", "backspace", "down", "end", "ctrl+c"}

CommandKeys == [Type : {"runes"}, Str : CommandChars]
               \cup {[Type |-> t, Str |-> t] : t \in CommandSpecialKeys}

\* the keys pressed on the file list: those above and the characters the
\* list itself handles
ListKeys == Keys \cup [Type : {"runes"}, Str : {"j", "k", "t"}]

\* len(msg.String()) == 1 && " " <= msg.String() <= "~": of the keys above,
\* the single characters
IsPrintable(k) == k.Type = "runes"

----------------------------------------------------------------------------
(* core.Summarizer as the event loop sees it: what SummarizeFile returns   *)
(* for a path relative to basePath                                         *)

SummarizeFile(filePath) ==
    LET fullPath == JoinClean(basePath, filePath)
    IN  IF fullPath \notin DOMAIN FileSize
        THEN [Path |-> filePath, Error |-> TRUE, IsExecutable |-> FALSE,
              FileSize |-> 0, Sections |-> 1]
        ELSE [Path |-> filePath, Error |-> FALSE,
              IsExecutable |-> IsExecutableFile(fullPath),
              FileSize |-> FileSize[fullPath], Sections |-> SectionLines[fullPath]]

----------------------------------------------------------------------------
(* ui.SummaryModel *)

Max(a, b) == IF a > b THEN a ELSE b
Min(a, b) == IF a < b THEN a ELSE b

\* formatDirectoryPreview lists at most this many entries
maxItems == 20

SM == [summary |-> summary, content |-> content,
       isLoading |-> isLoading, scrollPos |-> scrollPos]

formatSummaryForDisplay(s) == [kind |-> "summary", of |-> s]

SetSummary(sm, s) ==
    [summary |-> s, isLoading |-> FALSE, scrollPos |-> 0,
     content |-> IF s = Nil THEN NoFileSelected ELSE formatSummaryForDisplay(s)]

SetLoading(sm, loading) ==
    [sm EXCEPT !.isLoading = loading,
               !.content = IF loading THEN loadingText ELSE @]

SetContent(sm, c) ==
    [summary |-> Nil, isLoading |-> FALSE, scrollPos |-> 0, content |-> c]

\* len(strings.Split(content, "\n"))
LineCount(c) ==
    CASE c.kind \in {"initial", "nofile", "loading"} -> 1
      [] c.kind = "parent" -> 5
      [] c.kind \in {"unsupported", "previewError"} -> 3
      [] c.kind = "preview" ->
            IF c.entries = <<>> THEN 6
            ELSE 8 + Min(Len(c.entries), maxItems)
                   + (IF Len(c.entries) > maxItems THEN 1 ELSE 0)
      [] c.kind = "summary" ->
            5 + (IF c.of.FileSize > 0 THEN 1 ELSE 0) + c.of.Sections

\* the height View and Scroll use
AvailableHeight(h) == IF h - 4 < 1 THEN 1 ELSE h - 4

\* SummaryModel.Scroll(delta): the new scroll position
Scroll(sm, h, delta) ==
    LET lines == LineCount(sm.content)
        maxScroll == IF lines > AvailableHeight(h) THEN lines - AvailableHeight(h) ELSE 0
        newPos == sm.scrollPos + delta
    IN  IF newPos < 0 THEN 0 ELSE IF newPos > maxScroll THEN maxScroll ELSE newPos

\* what View renders: the loading text while loading, else the content
Displayed(sm) == IF sm.isLoading THEN loadingText ELSE sm.content

----------------------------------------------------------------------------
(* ui.FileListModel *)

\* the cursor after SetFiles(fs)
SetFilesCursor(fs, cur) ==
    LET c == IF Len(fs) > 0 /\ cur >= Len(fs) THEN Len(fs) - 1 ELSE cur
    IN  IF c < 0 THEN 0 ELSE c

GetSelectedFile(fs, cur) ==
    IF Len(fs) = 0 \/ cur >= Len(fs) THEN Nil ELSE fs[cur + 1]

\* a faulty Update that moves the cursor down without clamping
KeyCursorUnclamped(str, fs, cur) ==
    CASE str \in {"up", "k"} -> Max(0, cur - 1)
      [] str \in {"down", "j"} -> cur + 1
      [] str = "home" -> 0
      [] str = "end" -> Len(fs) - 1
      [] OTHER -> cur

\* the cursor after FileListModel.Update on a key with String() str
KeyCursor(str, fs, cur) ==
    CASE str \in {"up", "k"} -> Max(0, cur - 1)
      [] str \in {"down", "j"} -> Min(Len(fs) - 1, cur + 1)
      [] str = "home" -> 0
      [] str = "end" -> Len(fs) - 1
      [] str = "pageup" -> Max(0, cur - 10)
      [] str = "pagedown" -> Min(Len(fs) - 1, cur + 10)
      [] OTHER -> cur

KeyShowDirs(str, sd) == IF str = "t" THEN ~sd ELSE sd

\* View: the entries left when the directories are hidden
RECURSIVE displayFiles(_, _)
displayFiles(fs, sd) ==
    IF fs = <<>> THEN <<>>
    ELSE (IF sd \/ ~Head(fs).IsDir THEN <<Head(fs)>> ELSE <<>>)
         \o displayFiles(Tail(fs), sd)

\* View: the rows for the entries
fileListHeight(h) == Max(1, Max(1, h - 4) - 1)

\* View: the index in shown of the entry under the cursor, 0 when it is not
\* among them
cursorInDisplayFiles(shown, fs, cur) ==
    LET hits == {i \in DOMAIN shown : cur < Len(fs) /\ shown[i].Path = fs[cur + 1].Path}
    IN  IF hits = {} THEN 0 ELSE (CHOOSE i \in hits : \A j \in hits : i <= j) - 1

\* View: the entries rendered, the first index of the visible range, the
\* count the footer gives and whether it says the directories are hidden
FileListView(fs, cur, sd, h) ==
    IF fs = <<>> THEN [empty |-> TRUE]
    ELSE LET shown == displayFiles(fs, sd)
             rows == fileListHeight(h)
             centred == Max(0, cursorInDisplayFiles(shown, fs, cur) - (rows \div 2))
             endIdx == IF Len(shown) > rows THEN Min(Len(shown), centred + rows)
                       ELSE Len(shown)
             startIdx == IF Len(shown) > rows
                         THEN (IF endIdx = Len(shown) THEN Max(0, endIdx - rows)
                               ELSE centred)
                         ELSE 0
         IN  [empty |-> FALSE,
              entries |-> SubSeq(shown, startIdx + 1, endIdx),
              startIdx |-> startIdx,
              footerCount |-> Len(shown),
              dirsHidden |-> ~sd]

----------------------------------------------------------------------------
(* main.go: fuzzyFilter *)

\* the pattern's characters occur in str in order, letter case ignored
RECURSIVE IsSubsequence(_, _)
IsSubsequence(pattern, str) ==
    IF pattern = <<>> THEN TRUE
    ELSE IF str = <<>> THEN FALSE
    ELSE IF LowerChar(Head(pattern)) = LowerChar(Head(str))
         THEN IsSubsequence(Tail(pattern), Tail(str))
         ELSE IsSubsequence(pattern, Tail(str))

Orderings(S) ==
    {f \in [1..Cardinality(S) -> S] : \A i, j \in DOMAIN f : f[i] = f[j] => i = j}

\* fuzzy.Find(query, filePaths): the strings that match, best match first.
\* The ranking is the library's: every order of the matches is allowed for.
FuzzyFind(query, filePaths) ==
    LET hits == {i \in DOMAIN filePaths : IsSubsequence(query, Chars[filePaths[i]])}
    IN  {[k \in DOMAIN r |-> filePaths[r[k]]] : r \in Orderings(hits)}

\* a faulty mapping loop that takes the first file for every match
FilesOfMatchesFirst(fs, matches) ==
    [k \in DOMAIN matches |-> fs[1]]

\* the loop that maps the matches back: the first file with the match's path
FilesOfMatches(fs, matches) ==
    [k \in DOMAIN matches |->
        fs[CHOOSE i \in DOMAIN fs :
              /\ fs[i].Path = matches[k]
              /\ \A j \in DOMAIN fs : fs[j].Path = matches[k] => i <= j]]

\* every list fuzzyFilter(fs, query) can return
fuzzyFilter(fs, query) ==
    IF query = <<>> THEN {fs}
    ELSE {FilesOfMatches(fs, m) : m \in FuzzyFind(query, [i \in DOMAIN fs |-> fs[i].Path])}

----------------------------------------------------------------------------
(* main.go: the commands' results *)

\* a faulty loadFilesCmd that passes on a non-empty list when the read failed
LoadFilesMsgKeepsParent(cmd) ==
    LET r == ListDirectory(cmd.dir)
    IN  [type |-> "load", dir |-> cmd.dir,
         files |-> IF r.err THEN <<parentInfo>> ELSE r.files]

\* loadFilesCmd: the LoadFilesMsg of a listing
LoadFilesMsg(cmd) ==
    LET r == ListDirectory(cmd.dir)
    IN  [type |-> "load", dir |-> cmd.dir,
         files |-> IF r.err THEN <<>> ELSE r.files]

\* summarizeFileCmd: the SummaryMsg
SummaryMsg(cmd) ==
    [type |-> "summary", summary |-> SummarizeFile(cmd.filePath),
     path |-> cmd.filePath, selectedPath |-> cmd.selectedPath]

\* formatDirectoryPreview: the ".." entry is left out
RECURSIVE previewFiles(_)
previewFiles(fs) ==
    IF fs = <<>> THEN <<>>
    ELSE (IF Head(fs).Path # ".." THEN <<Head(fs)>> ELSE <<>>) \o previewFiles(Tail(fs))

formatDirectoryPreview(dirName, fs, dirPath) ==
    [kind |-> "preview", dirName |-> dirName, path |-> Rel(basePath, dirPath),
     entries |-> previewFiles(fs)]

\* showDirectoryPreview: the DirectoryPreviewMsg; cmd.dir is the currentDir
\* of the model the closure captured
DirectoryPreviewMsg(cmd) ==
    LET dirPath == Join(cmd.dir, cmd.dirName)
        r == ListDirectory(dirPath)
    IN  [type |-> "preview", dirName |-> cmd.dirName,
         content |-> IF r.err THEN PreviewErrorContent(cmd.dirName)
                     ELSE formatDirectoryPreview(cmd.dirName, r.files, dirPath)]

ResultOf(cmd) ==
    CASE cmd.type = "load" -> LoadFilesMsg(cmd)
      [] cmd.type = "summarize" -> SummaryMsg(cmd)
      [] cmd.type = "preview" -> DirectoryPreviewMsg(cmd)

----------------------------------------------------------------------------
(* main.go: handleFileSelection *)

\* a faulty handleFileSelection that summarizes every file, whatever its kind
handleFileSelectionAnyFile(sel, dir, sm) ==
    IF sel = Nil THEN [sm |-> SetSummary(sm, Nil), cmds |-> <<>>]
    ELSE IF sel.IsDir THEN
        IF sel.Path = ".."
        THEN [sm |-> SetContent(SetSummary(sm, Nil),
                                ParentContent(Rel(basePath, Dir(dir)))),
              cmds |-> <<>>]
        ELSE [sm |-> sm, cmds |-> <<PreviewCmd(dir, sel.Path)>>]
    ELSE [sm |-> SetLoading(sm, TRUE),
          cmds |-> <<SummarizeFileCmd(Rel(basePath, Join(dir, sel.Path)), sel.Path)>>]

\* the summary pane after the call and the command it returns (none: <<>>)
handleFileSelection(sel, dir, sm) ==
    IF sel = Nil THEN [sm |-> SetSummary(sm, Nil), cmds |-> <<>>]
    ELSE IF sel.IsDir THEN
        IF sel.Path = ".."
        THEN [sm |-> SetContent(SetSummary(sm, Nil),
                                ParentContent(Rel(basePath, Dir(dir)))),
              cmds |-> <<>>]
        ELSE [sm |-> sm, cmds |-> <<PreviewCmd(dir, sel.Path)>>]
    ELSE LET fullPath == Join(dir, sel.Path)
         IN  IF IsSourceFile(sel.Path) \/ IsExecutableFile(fullPath)
             THEN [sm |-> SetLoading(sm, TRUE),
                   cmds |-> <<SummarizeFileCmd(Rel(basePath, fullPath), sel.Path)>>]
             ELSE [sm |-> SetContent(SetSummary(sm, Nil), UnsupportedContent(sel.Path)),
                   cmds |-> <<>>]

\* "Check if selection changed": after the list or the cursor changed
SelectionCheck(fs, cur) ==
    LET sel == GetSelectedFile(fs, cur)
    IN  IF sel # Nil /\ sel.Path # selectedPath
        THEN [selectedPath |-> sel.Path] @@ handleFileSelection(sel, currentDir, SM)
        ELSE [selectedPath |-> selectedPath, sm |-> SM, cmds |-> <<>>]

\* sizeComponents: the panes' width and height for a window
PaneWidth(w) == IF (w \div 2) - borderWidth < 10 THEN 10 ELSE (w \div 2) - borderWidth
PaneHeight(h) ==
    IF h - headerHeight - footerHeight - borderHeight < 5 THEN 5
    ELSE h - headerHeight - footerHeight - borderHeight

----------------------------------------------------------------------------
(* The event loop: model.Update, one action per message and branch *)

dimVars == <<width, height, flWidth, flHeight, smWidth, smHeight>>
smVars == <<summary, content, isLoading, scrollPos>>

ApplySM(sm) ==
    /\ summary' = sm.summary
    /\ content' = sm.content
    /\ isLoading' = sm.isLoading
    /\ scrollPos' = sm.scrollPos

CmdBag(cmds) == IF cmds = <<>> THEN EmptyBag ELSE SetToBag({cmds[1]})

\* Update returns: the message is consumed, the commands start running
Finish(branch, delivered, cmds) ==
    /\ lastEvent' = branch
    /\ inflight' = (inflight (-) delivered) (+) CmdBag(cmds)
    /\ UNCHANGED <<walkerVars, unreadable, jsonVars, sumVars>>

\* the model's bound on the commands in flight: a key that would start one
\* more is not pressed
Within(cap) == BagCardinality(inflight') <= cap

\* case tea.WindowSizeMsg: sizeComponents leaves the panes as they are for a
\* window without width or height
HandleWindowSize(msg) ==
    /\ ~quit
    /\ width' = msg.Width
    /\ height' = msg.Height
    /\ IF msg.Width <= 0 \/ msg.Height <= 0
       THEN UNCHANGED <<flWidth, flHeight, smWidth, smHeight>>
       ELSE /\ flWidth' = PaneWidth(msg.Width)
            /\ flHeight' = PaneHeight(msg.Height)
            /\ smWidth' = PaneWidth(msg.Width)
            /\ smHeight' = PaneHeight(msg.Height)
    /\ Finish("WindowSizeMsg", EmptyBag, <<>>)
    /\ UNCHANGED <<currentDir, selectedPath, searchMode, searchQuery, allFiles,
                   filteredFiles, files, cursor, showDirs, smVars, quit>>

\* case LoadFilesMsg
HandleLoadFiles(cmd) ==
    LET msg == LoadFilesMsg(cmd)
    IN  /\ ~quit
        /\ cmd.type = "load"
        /\ \E ff \in (IF searchMode /\ searchQuery # <<>>
                      THEN fuzzyFilter(msg.files, searchQuery) ELSE {msg.files}) :
             LET cur == SetFilesCursor(ff, cursor)
                 sc == SelectionCheck(ff, cur)
             IN  /\ allFiles' = msg.files
                 /\ filteredFiles' = ff
                 /\ files' = ff
                 /\ cursor' = cur
                 /\ selectedPath' = sc.selectedPath
                 /\ ApplySM(sc.sm)
                 /\ Finish("LoadFilesMsg", SetToBag({cmd}), sc.cmds)
        /\ UNCHANGED <<currentDir, searchMode, searchQuery, showDirs,
                       dimVars, quit>>

\* a faulty SummaryMsg case that applies every result, stale or not
HandleSummaryUngated(cmd) ==
    LET msg == SummaryMsg(cmd)
    IN  /\ ~quit
        /\ cmd.type = "summarize"
        /\ ApplySM(SetSummary(SM, msg.summary))
        /\ Finish("SummaryMsg", SetToBag({cmd}), <<>>)
        /\ UNCHANGED <<currentDir, selectedPath, searchMode, searchQuery, allFiles,
                       filteredFiles, files, cursor, showDirs, dimVars, quit>>

\* case SummaryMsg
HandleSummary(cmd) ==
    LET msg == SummaryMsg(cmd)
    IN  /\ ~quit
        /\ cmd.type = "summarize"
        /\ IF msg.selectedPath = selectedPath
           THEN ApplySM(SetSummary(SM, msg.summary))
           ELSE UNCHANGED smVars
        /\ Finish("SummaryMsg", SetToBag({cmd}), <<>>)
        /\ UNCHANGED <<currentDir, selectedPath, searchMode, searchQuery, allFiles,
                       filteredFiles, files, cursor, showDirs, dimVars, quit>>

\* case DirectoryPreviewMsg
HandleDirectoryPreview(cmd) ==
    LET msg == DirectoryPreviewMsg(cmd)
        sel == GetSelectedFile(files, cursor)
    IN  /\ ~quit
        /\ cmd.type = "preview"
        /\ IF sel # Nil /\ sel.Path = msg.dirName
           THEN ApplySM(SetContent(SetSummary(SM, Nil), msg.content))
           ELSE UNCHANGED smVars
        /\ Finish("DirectoryPreviewMsg", SetToBag({cmd}), <<>>)
        /\ UNCHANGED <<currentDir, selectedPath, searchMode, searchQuery, allFiles,
                       filteredFiles, files, cursor, showDirs, dimVars, quit>>

\* a faulty Escape that leaves the filtered list displayed
SearchEscapeKeepsList(k) ==
    /\ ~quit /\ searchMode /\ k.Type = "esc"
    /\ searchMode' = FALSE
    /\ searchQuery' = <<>>
    /\ Finish("SearchEscape", EmptyBag, <<>>)
    /\ UNCHANGED <<currentDir, selectedPath, allFiles, filteredFiles, files, cursor,
                   showDirs, smVars, dimVars, quit>>

\* search mode, tea.KeyEscape
SearchEscape(k) ==
    /\ ~quit /\ searchMode /\ k.Type = "esc"
    /\ searchMode' = FALSE
    /\ searchQuery' = <<>>
    /\ files' = allFiles
    /\ cursor' = SetFilesCursor(allFiles, cursor)
    /\ Finish("SearchEscape", EmptyBag, <<>>)
    /\ UNCHANGED <<currentDir, selectedPath, allFiles, filteredFiles, showDirs, smVars, dimVars, quit>>

\* a faulty Enter that shows the whole listing again
SearchEnterDropsFilter(k) ==
    /\ ~quit /\ searchMode /\ k.Type = "enter"
    /\ searchMode' = FALSE
    /\ files' = allFiles
    /\ cursor' = SetFilesCursor(allFiles, cursor)
    /\ Finish("SearchEnter", EmptyBag, <<>>)
    /\ UNCHANGED <<currentDir, selectedPath, searchQuery, allFiles, filteredFiles,
                   showDirs, smVars, dimVars, quit>>

\* search mode, tea.KeyEnter
SearchEnter(k) ==
    /\ ~quit /\ searchMode /\ k.Type = "enter"
    /\ searchMode' = FALSE
    /\ Finish("SearchEnter", EmptyBag, <<>>)
    /\ UNCHANGED <<currentDir, selectedPath, searchQuery, allFiles, filteredFiles,
                   files, cursor, showDirs, smVars, dimVars, quit>>

\* a faulty re-filter that narrows the displayed list instead of allFiles
RefilterDisplayed(q) ==
    \E ff \in (IF q = <<>> THEN {allFiles} ELSE fuzzyFilter(files, q)) :
        /\ searchQuery' = q
        /\ filteredFiles' = ff
        /\ files' = ff
        /\ cursor' = SetFilesCursor(ff, cursor)

\* the list after a search key changed the query to q
Refilter(q) ==
    \E ff \in (IF q = <<>> THEN {allFiles} ELSE fuzzyFilter(allFiles, q)) :
        /\ searchQuery' = q
        /\ filteredFiles' = ff
        /\ files' = ff
        /\ cursor' = SetFilesCursor(ff, cursor)

\* search mode, tea.KeyBackspace
SearchBackspace(k) ==
    /\ ~quit /\ searchMode /\ k.Type = "backspace"
    /\ IF Len(searchQuery) > 0
       THEN Refilter(SubSeq(searchQuery, 1, Len(searchQuery) - 1))
       ELSE UNCHANGED <<searchQuery, filteredFiles, files, cursor>>
    /\ Finish("SearchBackspace", EmptyBag, <<>>)
    /\ UNCHANGED <<currentDir, selectedPath, searchMode, allFiles, showDirs, smVars, dimVars, quit>>

\* a faulty default case in which "t" still toggles the directories
SearchDefaultToggles(k, cap) ==
    /\ ~quit /\ searchMode /\ k.Type \notin {"esc", "enter", "backspace"}
    /\ IF IsPrintable(k)
       THEN /\ Len(searchQuery) < cap
            /\ Refilter(Append(searchQuery, k.Str))
       ELSE UNCHANGED <<searchQuery, filteredFiles, files, cursor>>
    /\ showDirs' = KeyShowDirs(k.Str, showDirs)
    /\ Finish("SearchDefault", EmptyBag, <<>>)
    /\ UNCHANGED <<currentDir, selectedPath, searchMode, allFiles, smVars, dimVars, quit>>

\* search mode, default: a printable character is added to the query (the
\* model's bound on the query: a character that would pass cap is not typed)
SearchDefault(k, cap) ==
    /\ ~quit /\ searchMode /\ k.Type \notin {"esc", "enter", "backspace"}
    /\ IF IsPrintable(k)
       THEN /\ Len(searchQuery) < cap
            /\ Refilter(Append(searchQuery, k.Str))
       ELSE UNCHANGED <<searchQuery, filteredFiles, files, cursor>>
    /\ Finish("SearchDefault", EmptyBag, <<>>)
    /\ UNCHANGED <<currentDir, selectedPath, searchMode, allFiles, showDirs, smVars, dimVars, quit>>

\* normal mode, "ctrl+c", "q": tea.Quit ends the program
BrowseQuit(k) ==
    /\ ~quit /\ ~searchMode /\ k.Str \in {"ctrl+c", "q"}
    /\ quit' = TRUE
    /\ Finish("BrowseQuit", EmptyBag, <<>>)
    /\ UNCHANGED <<currentDir, selectedPath, searchMode, searchQuery, allFiles,
                   filteredFiles, files, cursor, showDirs, smVars, dimVars>>

\* normal mode, "/"
BrowseSearch(k) ==
    /\ ~quit /\ ~searchMode /\ k.Str = "/"
    /\ searchMode' = TRUE
    /\ searchQuery' = <<>>
    /\ Finish("BrowseSearch", EmptyBag, <<>>)
    /\ UNCHANGED <<currentDir, selectedPath, allFiles, filteredFiles, files, cursor,
                   showDirs, smVars, dimVars, quit>>

\* normal mode, "r"
BrowseRefresh(k, cap) ==
    /\ ~quit /\ ~searchMode /\ k.Str = "r"
    /\ Finish("BrowseRefresh", EmptyBag, <<LoadFilesCmd(currentDir)>>)
    /\ Within(cap)
    /\ UNCHANGED <<currentDir, selectedPath, searchMode, searchQuery, allFiles,
                   filteredFiles, files, cursor, showDirs, smVars,
                   dimVars, quit>>

\* normal mode, "pgup" and "pgdown"
BrowseScroll(k) ==
    /\ ~quit /\ ~searchMode /\ k.Str \in {"pgup", "pgdown"}
    /\ scrollPos' = Scroll(SM, smHeight, IF k.Str = "pgup" THEN -5 ELSE 5)
    /\ Finish("BrowseScroll", EmptyBag, <<>>)
    /\ UNCHANGED <<currentDir, selectedPath, searchMode, searchQuery, allFiles,
                   filteredFiles, files, cursor, showDirs, summary, content,
                   isLoading, dimVars, quit>>

\* a faulty Enter that goes into whatever entry is under the cursor
BrowseEnterAnyEntry(k, cap) ==
    LET sel == GetSelectedFile(files, cursor)
    IN  /\ ~quit /\ ~searchMode /\ k.Str = "enter"
        /\ IF sel # Nil
           THEN /\ currentDir' = IF sel.Path = ".." THEN Dir(currentDir)
                                 ELSE Join(currentDir, sel.Path)
                /\ Finish("BrowseEnter", EmptyBag, <<LoadFilesCmd(currentDir')>>)
                /\ Within(cap)
           ELSE /\ UNCHANGED currentDir
                /\ Finish("BrowseEnter", EmptyBag, <<>>)
        /\ UNCHANGED <<selectedPath, searchMode, searchQuery, allFiles, filteredFiles,
                       files, cursor, showDirs, smVars, dimVars, quit>>

\* normal mode, "enter"
BrowseEnter(k, cap) ==
    LET sel == GetSelectedFile(files, cursor)
    IN  /\ ~quit /\ ~searchMode /\ k.Str = "enter"
        /\ IF sel # Nil /\ sel.IsDir
           THEN /\ currentDir' = IF sel.Path = ".." THEN Dir(currentDir)
                                 ELSE Join(currentDir, sel.Path)
                /\ Finish("BrowseEnter", EmptyBag, <<LoadFilesCmd(currentDir')>>)
                /\ Within(cap)
           ELSE /\ UNCHANGED currentDir
                /\ Finish("BrowseEnter", EmptyBag, <<>>)
        /\ UNCHANGED <<selectedPath, searchMode, searchQuery, allFiles, filteredFiles,
                       files, cursor, showDirs, smVars, dimVars, quit>>

BrowseCommands == {"ctrl+c", "q", "/", "r", "pgup", "pgdown", "enter"}

\* normal mode, default: the file list handles the key, then the selection
\* is checked
BrowseNavigate(k, cap) ==
    LET cur == KeyCursor(k.Str, files, cursor)
        sc == SelectionCheck(files, cur)
    IN  /\ ~quit /\ ~searchMode /\ k.Str \notin BrowseCommands
        /\ cursor' = cur
        /\ showDirs' = KeyShowDirs(k.Str, showDirs)
        /\ selectedPath' = sc.selectedPath
        /\ ApplySM(sc.sm)
        /\ Finish("BrowseNavigate", EmptyBag, sc.cmds)
        /\ Within(cap)
        /\ UNCHANGED <<currentDir, searchMode, searchQuery, allFiles, filteredFiles,
                       files, dimVars, quit>>

----------------------------------------------------------------------------
(* The program: initialModel, Init's loadFilesCmd, then the event loop *)

WalkerIdle ==
    /\ wfiles = <<>>
    /\ calls = <<>>

\* SummarizeFile is not called
NoCall ==
    /\ srcFile = Nil
    /\ sumCall = Nil

\* no .json file is being summarized
SummarizerIdle ==
    /\ jsonData = Nil
    /\ summaries = <<>>
    /\ NoCall

\* initialModel, the first loadFilesCmd, an idle Walker and the file system
ControllerInit ==
    /\ currentDir = basePath
    /\ selectedPath = ""
    /\ searchMode = FALSE
    /\ searchQuery = <<>>
    /\ allFiles = <<>>
    /\ filteredFiles = <<>>
    /\ width = initialWidth
    /\ height = initialHeight
    /\ files = <<>>
    /\ cursor = 0
    /\ showDirs = TRUE
    /\ flWidth = PaneWidth(initialWidth)
    /\ flHeight = PaneHeight(initialHeight)
    /\ summary = Nil
    /\ content = InitialContent
    /\ isLoading = FALSE
    /\ scrollPos = 0
    /\ smWidth = PaneWidth(initialWidth)
    /\ smHeight = PaneHeight(initialHeight)
    /\ inflight = SetToBag({LoadFilesCmd(basePath)})
    /\ quit = FALSE
    /\ lastEvent = "Init"
    /\ WalkerIdle
    /\ unreadable \in UnreadableSets

Init == ControllerInit /\ SummarizerIdle

\* a command in flight finishes and the runtime hands its message to Update
DeliverLoadFiles == \E cmd \in BagToSet(inflight) : HandleLoadFiles(cmd)
DeliverSummary == \E cmd \in BagToSet(inflight) : HandleSummary(cmd)
DeliverDirectoryPreview == \E cmd \in BagToSet(inflight) : HandleDirectoryPreview(cmd)

Deliver ==
    \/ DeliverLoadFiles
    \/ DeliverSummary
    \/ DeliverDirectoryPreview

SearchKey ==
    \E k \in Keys :
        \/ SearchEscape(k)
        \/ SearchEnter(k)
        \/ SearchBackspace(k)
        \/ SearchDefault(k, MaxQuery)

BrowseKey ==
    \E k \in Keys :
        \/ BrowseQuit(k)
        \/ BrowseSearch(k)
        \/ BrowseRefresh(k, MaxInflight)
        \/ BrowseScroll(k)
        \/ BrowseEnter(k, MaxInflight)
        \/ BrowseNavigate(k, MaxInflight)

\* the terminal reports a window size
WindowSize == \E msg \in WindowSizes : HandleWindowSize(msg)

Next == Deliver \/ WindowSize \/ SearchKey \/ BrowseKey

Spec == Init /\ [][Next]_vars

\* Searching within the start directory: while Browsing, the keys that start
\* a search and move the cursor
SearchBrowseKey ==
    \E k \in Keys :
        \/ BrowseSearch(k)
        \/ BrowseNavigate(k, MaxInflight)

SearchNext == Deliver \/ SearchKey \/ SearchBrowseKey

SearchSpec == Init /\ [][SearchNext]_vars

\* Typing the command characters: the keys of Searching, and while Browsing
\* the keys that start a search, move the cursor and toggle the directories
TypeSearchKey ==
    \E k \in CommandKeys :
        \/ SearchEscape(k)
        \/ SearchEnter(k)
        \/ SearchBackspace(k)
        \/ SearchDefault(k, MaxTyped)

TypeBrowseKey ==
    \E k \in CommandKeys :
        \/ BrowseSearch(k)
        \/ BrowseNavigate(k, MaxInflight)

TypeNext == Deliver \/ TypeSearchKey \/ TypeBrowseKey

TypeSpec == Init /\ [][TypeNext]_vars

\* Navigating the tree: every key of Browsing but "/"
NavKey ==
    \E k \in Keys :
        \/ BrowseQuit(k)
        \/ BrowseRefresh(k, MaxNavInflight)
        \/ BrowseScroll(k)
        \/ BrowseEnter(k, MaxNavInflight)
        \/ BrowseNavigate(k, MaxNavInflight)

NavNext == Deliver \/ NavKey

NavSpec == Init /\ [][NavNext]_vars

\* Navigating the tree while results and listings asked for earlier are
\* still on their way: Enter and the keys that move the cursor
StaleKey ==
    \E k \in Keys :
        \/ BrowseEnter(k, MaxStaleInflight)
        \/ BrowseNavigate(k, MaxStaleInflight)

StaleNext == Deliver \/ StaleKey

StaleSpec == Init /\ [][StaleNext]_vars

\* Moving the selection within the start directory while results arrive: the
\* keys that refresh the listing, scroll the pane and move the cursor
SelectKey ==
    \E k \in Keys :
        \/ BrowseRefresh(k, MaxSelInflight)
        \/ BrowseScroll(k)
        \/ BrowseNavigate(k, MaxSelInflight)

SelectNext == Deliver \/ SelectKey

SelectSpec == Init /\ [][SelectNext]_vars

\* Hiding the directories while navigating the tree
HideKey ==
    \E k \in ListKeys :
        \/ BrowseEnter(k, MaxNavInflight)
        \/ BrowseNavigate(k, MaxNavInflight)

HideNext == Deliver \/ HideKey

HideSpec == Init /\ [][HideNext]_vars

\* Resizing the window while the summary pane is scrolled and the selection
\* moves within the start directory
ResizeKey ==
    \E k \in ListKeys :
        \/ BrowseScroll(k)
        \/ BrowseNavigate(k, MaxInflight)

ResizeNext == Deliver \/ WindowSize \/ ResizeKey

ResizeSpec == Init /\ [][ResizeNext]_vars

----------------------------------------------------------------------------
(* utils.Walker under concurrent calls.  loadFilesCmd and                  *)
(* showDirectoryPreview run in goroutines of their own and call            *)
(* ListDirectory on the one Walker of the model, whose field files every   *)
(* call resets, appends to and returns.  Each statement of ListDirectory   *)
(* that touches w.files is a step; an append reads w.files in one step and *)
(* writes it in the next.  The event-loop actions above take a listing as  *)
(* one step (ListDirectory), which is what a call yields when it runs      *)
(* alone (ListsAloneAsListDirectory below).                                *)

\* the directories the commands list
WalkerDirs == {basePath, <<"r", "d">>, <<"r", "u">>}

Running(c) == c.pc # "done"

SetCall(i, c) ==
    /\ calls' = [calls EXCEPT ![i] = c]
    /\ UNCHANGED <<ctlVars, unreadable, jsonVars, sumVars>>

\* a command's goroutine enters ListDirectory(dirPath)
WCall(dirPath) ==
    /\ Len(calls) < MaxCalls
    /\ calls' = Append([i \in DOMAIN calls |->
                           IF Running(calls[i]) THEN [calls[i] EXCEPT !.alone = FALSE]
                           ELSE calls[i]],
                       [dir |-> dirPath, pc |-> "reset", entries |-> <<>>, i |-> 1,
                        tmp |-> <<>>, ret |-> <<>>, err |-> FALSE,
                        alone |-> \A j \in DOMAIN calls : ~Running(calls[j])])
    /\ UNCHANGED <<wfiles, ctlVars, unreadable, jsonVars, sumVars>>

\* w.files = make([]FileInfo, 0)
WReset(i) ==
    /\ i \in DOMAIN calls
    /\ calls[i].pc = "reset"
    /\ wfiles' = <<>>
    /\ SetCall(i, [calls[i] EXCEPT !.pc = "read"])

\* entries, err := os.ReadDir(scanPath); if err != nil { return w.files, err }
WReadDir(i) ==
    LET c == calls[i]
        rd == ReadDir(c.dir)
    IN  /\ i \in DOMAIN calls
        /\ c.pc = "read"
        /\ IF rd.err
           THEN SetCall(i, [c EXCEPT !.pc = "done", !.ret = wfiles, !.err = TRUE])
           ELSE SetCall(i, [c EXCEPT !.pc = "parent", !.entries = rd.entries])
        /\ UNCHANGED wfiles

\* if dirPath != w.basePath: append(w.files, parentInfo) is evaluated
WParent(i) ==
    LET c == calls[i]
    IN  /\ i \in DOMAIN calls
        /\ c.pc = "parent"
        /\ IF AddsParent(c.dir)
           THEN SetCall(i, [c EXCEPT !.pc = "store", !.tmp = Append(wfiles, parentInfo)])
           ELSE SetCall(i, [c EXCEPT !.pc = "loop"])
        /\ UNCHANGED wfiles

\* one round of the loop: the entry is skipped, or append(w.files, fileInfo)
\* is evaluated
WEntry(i) ==
    LET c == calls[i]
        name == c.entries[c.i]
    IN  /\ i \in DOMAIN calls
        /\ c.pc = "loop"
        /\ c.i <= Len(c.entries)
        /\ IF SkipsEntry(c.dir, name)
           THEN SetCall(i, [c EXCEPT !.i = @ + 1])
           ELSE SetCall(i, [c EXCEPT !.pc = "store", !.i = @ + 1,
                    !.tmp = Append(wfiles, FileInfo(name, IsDirPath(Join(c.dir, name))))])
        /\ UNCHANGED wfiles

\* w.files = <the appended slice>
WStore(i) ==
    /\ i \in DOMAIN calls
    /\ calls[i].pc = "store"
    /\ wfiles' = calls[i].tmp
    /\ SetCall(i, [calls[i] EXCEPT !.pc = "loop"])

\* return w.files, nil
WReturn(i) ==
    LET c == calls[i]
    IN  /\ i \in DOMAIN calls
        /\ c.pc = "loop"
        /\ c.i > Len(c.entries)
        /\ SetCall(i, [c EXCEPT !.pc = "done", !.ret = wfiles])
        /\ UNCHANGED wfiles

WalkerNext ==
    \/ \E d \in WalkerDirs : WCall(d)
    \/ \E i \in 1..MaxCalls :
        \/ WReset(i)
        \/ WReadDir(i)
        \/ WParent(i)
        \/ WEntry(i)
        \/ WStore(i)
        \/ WReturn(i)

WalkerSpec == Init /\ [][WalkerNext]_vars

\* a call that ran with no other call on the Walker returns what the
\* one-step ListDirectory gives
ListsAloneAsListDirectory ==
    \A i \in DOMAIN calls :
        (calls[i].pc = "done" /\ calls[i].alone) =>
            /\ calls[i].err = ListDirectory(calls[i].dir).err
            /\ calls[i].ret = ListDirectory(calls[i].dir).files

----------------------------------------------------------------------------
(* core.Summarizer on a .json file.  A JSON value is a record tagged "obj"  *)
(* (m, the map json.Unmarshal builds: a function from the keys to the      *)
(* values), "arr" (e, the elements in order) or "num".  A key path is the   *)
(* sequence of the pieces it is concatenated from: the keys, "." and "[0]". *)
(* Go ranges over a map in an order that differs from run to run: every    *)
(* order of the keys is allowed for.                                       *)

JNum == [t |-> "num"]
JArr(elems) == [t |-> "arr", e |-> elems]
JObj(map) == [t |-> "obj", m |-> map]

\* the key names of the documents
KeyNames == {"a", "b", "c"}

\* the values of the documents' top-level keys: a number, the array [1, 2],
\* the object {"b": 1}, the array [{"a": 1}, {"b": 1}], and the chain of
\* objects {"a": {"a": {"a": {"a": 1}}}}
JChain ==
    JObj("a" :> JObj("a" :> JObj("a" :> JObj("a" :> JNum))))

JValues ==
    {JNum,
     JArr(<<JNum, JNum>>),
     JObj("b" :> JNum),
     JArr(<<JObj("a" :> JNum), JObj("b" :> JNum)>>),
     JChain}

\* the documents summarized: the objects with keys among KeyNames and those
\* values, and the arrays of one or two of them with one key
JSONDocs ==
    {JObj(map) : map \in UNION {[S -> JValues] : S \in SUBSET KeyNames}}
    \cup {JArr(<<JObj("a" :> v)>>) : v \in JValues}
    \cup {JArr(<<JObj("a" :> JNum), JObj("b" :> v)>>) : v \in JValues}

\* strings.Count(fullKey, ".")
Dots(path) == Cardinality({i \in DOMAIN path : path[i] = "."})

\* nested keys are extracted while the key has fewer dots than this
maxDots == 3

RECURSIVE extractJSONKeys(_, _)
RECURSIVE RangeOverMap(_, _, _)

\* the loop over a map taken in the order given: the key, then the keys
\* nested in its value
RangeOverMap(map, prefix, order) ==
    IF order = <<>> THEN {<<>>}
    ELSE LET key == Head(order)
             fullKey == IF prefix # <<>> THEN prefix \o <<".", key>> ELSE <<key>>
             nested == IF Dots(fullKey) < maxDots
                       THEN extractJSONKeys(map[key], fullKey)
                       ELSE {<<>>}
         IN  {<<fullKey>> \o n \o rest :
                 n \in nested, rest \in RangeOverMap(map, prefix, Tail(order))}

\* a faulty extractJSONKeys that analyzes the last element of an array
extractJSONKeysLastElement(data, prefix) ==
    CASE data.t = "obj" ->
            UNION {RangeOverMap(data.m, prefix, order) : order \in Orderings(DOMAIN data.m)}
      [] data.t = "arr" ->
            IF Len(data.e) > 0
            THEN extractJSONKeys(data.e[Len(data.e)], prefix \o <<"[0]">>)
            ELSE {<<>>}
      [] OTHER -> {<<>>}

\* every list of keys extractJSONKeys(data, prefix) can return
extractJSONKeys(data, prefix) ==
    CASE data.t = "obj" ->
            UNION {RangeOverMap(data.m, prefix, order) : order \in Orderings(DOMAIN data.m)}
      [] data.t = "arr" ->
            IF Len(data.e) > 0
            THEN extractJSONKeys(data.e[1], prefix \o <<"[0]">>)
            ELSE {<<>>}
      [] OTHER -> {<<>>}

\* parseJSON on a file that holds a valid document: every FileSummary it can
\* return, as far as the fields depend on the document
parseJSON(data) ==
    {[Language |-> "JSON", Error |-> FALSE, IsExecutable |-> FALSE,
      ConfigKeys |-> keys] : keys \in extractJSONKeys(data, <<>>)}

\* SummarizeFile is called once more on the file, which is not modified
SummarizeJSON ==
    /\ Len(summaries) < MaxSummaries
    /\ \E s \in parseJSON(jsonData) : summaries' = Append(summaries, s)
    /\ UNCHANGED <<ctlVars, walkerVars, unreadable, jsonData, sumVars>>

\* a .json file with one of the documents is there to be summarized
JSONInit ==
    /\ ControllerInit
    /\ jsonData \in JSONDocs
    /\ summaries = <<>>
    /\ NoCall

JSONSpec == JSONInit /\ [][SummarizeJSON]_vars

----------------------------------------------------------------------------
(* core.Summarizer.SummarizeFile on any file.  A file's content is the      *)
(* sequence of its lines and whether the last one ends with a newline; a    *)
(* line is the sequence of the tokens strings.TrimSpace leaves, separated   *)
(* by blanks; the empty sequence is a blank line.                           *)

\* the lines of the files summarized
MaxLines == 3

Range(s) == {s[i] : i \in DOMAIN s}

\* strings.Contains(line, tok), strings.HasPrefix(line, tok)
Contains(line, tok) == tok \in Range(line)
StartsWith(line, tok) == line # <<>> /\ line[1] = tok

\* the identifiers of the files: what \w+ matches
Words == {"Foo", "T", "foo", "C", "f", "x", "os", "path", "int", "main", "static",
          "func", "type", "struct", "import", "def", "class", "from", "function",
          "const", "interface", "fn", "pub", "use", "enum", "union"}

IsWord(tok) == tok \in Words

\* the quoted or bracketed tokens of the files and the text inside them
Unquote ==
    "\"fmt\"" :> "fmt" @@ "'./m'" :> "./m" @@ "require('./m')" :> "./m" @@
    "<vector>" :> "vector"

IsQuoted(tok) == tok \in DOMAIN Unquote

\* the text of the tokens line[from..to] of a line, one blank between two
RECURSIVE Text(_, _, _)
Text(line, from, to) ==
    IF from > to THEN ""
    ELSE IF from = to THEN line[from]
    ELSE line[from] \o " " \o Text(line, from + 1, to)

\* a line longer than the buffer of a bufio.Scanner (bufio.MaxScanTokenSize):
\* Scan returns false on it and Err returns bufio.ErrTooLong
tooLong == <<"x", "...(64 KiB more)">>

\* the scan of a source file: inside a multi-line comment or string or not,
\* and the FileSummary so far
LineResult(inside, s) == [inside |-> inside, summary |-> s]

\* a faulty extraction that appends the name without counting it
AddFunctionUncounted(s, name) == [s EXCEPT !.Functions = Append(@, name)]

AddFunction(s, name) ==
    [s EXCEPT !.Functions = Append(@, name), !.FunctionCount = @ + 1]
AddImport(s, name) == [s EXCEPT !.Imports = Append(@, name)]
AddType(s, name) == [s EXCEPT !.Types = Append(@, name)]
AddStruct(s, name) == [s EXCEPT !.Structs = Append(@, name)]

\* the multi-line comment handling of the Go, JavaScript, Rust and C++ loops:
\* whether the line is skipped, and whether the scan is inside afterwards
CommentSkips(line, inside) == inside \/ Contains(line, "/*")
CommentAfter(line, inside) ==
    IF CommentSkips(line, inside) THEN ~Contains(line, "*/") ELSE FALSE

\* one iteration of the loop of parseGoFile after lineCount++
GoLine(line, inside, s) ==
    IF line = <<>> \/ StartsWith(line, "//") THEN LineResult(inside, s)
    ELSE IF CommentSkips(line, inside)
    THEN LineResult(CommentAfter(line, inside), s)
    ELSE LET s1 == IF Len(line) >= 2 /\ line[1] = "func" /\ IsWord(line[2])
                   THEN AddFunction(s, line[2]) ELSE s
             s2 == IF Len(line) >= 2 /\ line[1] = "import" /\ IsQuoted(line[2])
                   THEN AddImport(s1, Unquote[line[2]]) ELSE s1
             s3 == IF Len(line) >= 3 /\ line[1] = "type" /\ IsWord(line[2])
                   THEN AddType(s2, line[2]) ELSE s2
             s4 == IF Len(line) >= 3 /\ line[1] = "type" /\ IsWord(line[2])
                      /\ line[3] = "struct"
                   THEN AddStruct(s3, line[2]) ELSE s3
         IN  LineResult(FALSE, s4)

\* one iteration of the loop of parsePythonFile
PythonLine(line, inside, s) ==
    IF line = <<>> \/ StartsWith(line, "#") THEN LineResult(inside, s)
    ELSE IF Contains(line, "\"\"\"") \/ Contains(line, "'''")
    THEN LineResult(~inside, s)
    ELSE IF inside THEN LineResult(inside, s)
    ELSE LET s1 == IF Len(line) >= 2 /\ line[1] = "def" /\ IsWord(line[2])
                   THEN AddFunction(s, line[2]) ELSE s
             s2 == IF Len(line) >= 4 /\ line[1] = "from" /\ line[3] = "import"
                   THEN AddImport(s1, line[2] \o "." \o Text(line, 4, Len(line)))
                   ELSE IF Len(line) >= 2 /\ line[1] = "import"
                   THEN AddImport(s1, Text(line, 2, Len(line)))
                   ELSE s1
             s3 == IF Len(line) >= 2 /\ line[1] = "class" /\ IsWord(line[2])
                   THEN AddStruct(AddType(s2, line[2]), line[2]) ELSE s2
         IN  LineResult(FALSE, s3)

\* the first name the function pattern of parseJavaScriptFile captures
JSFunction(line) ==
    IF Len(line) >= 2 /\ line[1] = "function" /\ IsWord(line[2]) THEN <<line[2]>>
    ELSE IF Len(line) >= 4 /\ line[1] = "const" /\ IsWord(line[2]) /\ line[3] = "="
            /\ \E i \in 4..Len(line) : line[i] = "=>"
    THEN <<line[2]>>
    ELSE IF Len(line) >= 3 /\ IsWord(line[1]) /\ line[2] = ":" /\ line[3] = "function"
    THEN <<line[1]>>
    ELSE <<>>

\* the module the import pattern of parseJavaScriptFile captures
JSImport(line) ==
    IF Len(line) >= 3 /\ line[1] = "import"
       /\ \E i \in 2..(Len(line) - 1) : line[i] = "from" /\ IsQuoted(line[i + 1])
    THEN LET i == CHOOSE i \in 2..(Len(line) - 1) :
                      /\ line[i] = "from" /\ IsQuoted(line[i + 1])
                      /\ \A j \in (i + 1)..(Len(line) - 1) :
                            ~(line[j] = "from" /\ IsQuoted(line[j + 1]))
         IN  <<Unquote[line[i + 1]]>>
    ELSE IF Len(line) >= 4 /\ line[1] = "const"
            /\ \E i \in 3..(Len(line) - 1) : line[i] = "=" /\ IsQuoted(line[i + 1])
    THEN LET i == CHOOSE i \in 3..(Len(line) - 1) :
                      line[i] = "=" /\ IsQuoted(line[i + 1])
         IN  <<Unquote[line[i + 1]]>>
    ELSE <<>>

\* one iteration of the loop of parseJavaScriptFile
JavaScriptLine(line, inside, s) ==
    IF line = <<>> \/ StartsWith(line, "//") THEN LineResult(inside, s)
    ELSE IF CommentSkips(line, inside)
    THEN LineResult(CommentAfter(line, inside), s)
    ELSE LET s1 == IF JSFunction(line) # <<>>
                   THEN AddFunction(s, JSFunction(line)[1]) ELSE s
             s2 == IF JSImport(line) # <<>>
                   THEN AddImport(s1, JSImport(line)[1]) ELSE s1
             s3 == IF Len(line) >= 2 /\ line[1] \in {"class", "interface"}
                      /\ IsWord(line[2])
                   THEN AddStruct(AddType(s2, line[2]), line[2]) ELSE s2
         IN  LineResult(FALSE, s3)

\* the line without a leading pub
AfterPub(line) == IF StartsWith(line, "pub") THEN Tail(line) ELSE line

\* one iteration of the loop of parseRustFile
RustLine(line, inside, s) ==
    IF line = <<>> \/ StartsWith(line, "//") THEN LineResult(inside, s)
    ELSE IF CommentSkips(line, inside)
    THEN LineResult(CommentAfter(line, inside), s)
    ELSE LET rest == AfterPub(line)
             semis == {i \in 3..Len(line) : line[i] = ";"}
             semi == CHOOSE i \in semis : \A j \in semis : i <= j
             s1 == IF Len(rest) >= 2 /\ rest[1] = "fn" /\ IsWord(rest[2])
                   THEN AddFunction(s, rest[2]) ELSE s
             s2 == IF StartsWith(line, "use") /\ semis # {}
                   THEN AddImport(s1, Text(line, 2, semi - 1))
                   ELSE s1
             s3 == IF Len(rest) >= 2 /\ rest[1] \in {"struct", "enum", "type"}
                      /\ IsWord(rest[2])
                   THEN AddType(s2, rest[2]) ELSE s2
             s4 == IF Len(rest) >= 2 /\ rest[1] = "struct" /\ IsWord(rest[2])
                   THEN AddStruct(s3, rest[2]) ELSE s3
         IN  LineResult(FALSE, s4)

\* the name qualifiers of the C++ files: what [a-zA-Z_][a-zA-Z0-9_]*:: matches
Qualifiers == {"std::"}

\* the name the function pattern of parseCppFile captures: an optional
\* identifier, an optional qualifier, a word, the name, then "("
CppFunction(line) ==
    LET Pattern(skip) ==
            /\ Len(line) >= skip + 3
            /\ IsWord(line[skip + 1]) /\ IsWord(line[skip + 2])
            /\ line[skip + 3] = "("
        Qualified(skip) ==
            /\ Len(line) >= skip + 4
            /\ line[skip + 1] \in Qualifiers
            /\ IsWord(line[skip + 2]) /\ IsWord(line[skip + 3])
            /\ line[skip + 4] = "("
    IN  IF Len(line) >= 1 /\ IsWord(line[1]) /\ Qualified(1) THEN <<line[4]>>
        ELSE IF Len(line) >= 1 /\ IsWord(line[1]) /\ Pattern(1) THEN <<line[3]>>
        ELSE IF Qualified(0) THEN <<line[3]>>
        ELSE IF Pattern(0) THEN <<line[2]>>
        ELSE <<>>

\* one iteration of the loop of parseCppFile
CppLine(line, inside, s) ==
    IF line = <<>> \/ StartsWith(line, "//") THEN LineResult(inside, s)
    ELSE IF CommentSkips(line, inside)
    THEN LineResult(CommentAfter(line, inside), s)
    ELSE LET s1 == IF CppFunction(line) # <<>>
                   THEN AddFunction(s, CppFunction(line)[1]) ELSE s
             s2 == IF Len(line) >= 2 /\ line[1] = "#include" /\ IsQuoted(line[2])
                   THEN AddImport(s1, Unquote[line[2]]) ELSE s1
             s3 == IF Len(line) >= 2 /\ IsWord(line[2])
                      /\ line[1] \in {"class", "struct", "enum", "union"}
                   THEN AddType(s2, line[2]) ELSE s2
             s4 == IF Len(line) >= 2 /\ line[1] \in {"class", "struct"}
                      /\ IsWord(line[2])
                   THEN AddStruct(s3, line[2]) ELSE s3
         IN  LineResult(FALSE, s4)

\* the lines of the source files of each language
GoLines ==
    {<<>>, <<"//", "x">>, <<"/*", "x", "*/">>, <<"/*", "x">>, <<"x", "*/">>,
     <<"func", "Foo", "(", ")", "{", "}">>, <<"type", "T", "struct", "{">>,
     <<"import", "\"fmt\"">>, tooLong}
PythonLines ==
    {<<"#", "x">>, <<"\"\"\"", "x", "\"\"\"">>, <<"\"\"\"">>,
     <<"def", "foo", "(", ")", ":">>, <<"class", "C", ":">>,
     <<"from", "os", "import", "path">>, tooLong}
JavaScriptLines ==
    {<<"/*", "x", "*/">>, <<"/*", "x">>, <<"x", "*/">>,
     <<"function", "foo", "(", ")", "{">>, <<"const", "f", "=", "(", ")", "=>", "x">>,
     <<"class", "C", "{">>, <<"import", "x", "from", "'./m'">>, tooLong}
RustLines ==
    {<<"/*", "x", "*/">>, <<"/*", "x">>, <<"x", "*/">>,
     <<"pub", "fn", "foo", "(", ")", "{">>, <<"struct", "T", "{">>,
     <<"use", "os", ";">>, tooLong}
CppLines ==
    {<<"/*", "x", "*/">>, <<"/*", "x">>, <<"x", "*/">>,
     <<"int", "main", "(", ")", "{">>, <<"class", "C", "{">>,
     <<"#include", "<vector>">>, tooLong}

\* the sequences of at most n lines among a set of lines
SeqsUpTo(S, n) == UNION {[1..k -> S] : k \in 0..n}

\* the markdown, INI and ENV tokens: links, section heads, variables
LinkTokens == {"[l](t)"}
SectionName == "[s]" :> "s"
EnvName == "KEY=1" :> "KEY"

\* lines numbered from 1, of files and outputs where only the number of
\* lines matters
Numbered(n) == [i \in 1..n |-> <<ToString(i)>>]

\* the number of lines of the preview of a text file, of an INI file, of an
\* ENV file, and of the help text of an executable
previewLines == 50
iniPreviewLines == 40
envPreviewLines == 30
helpLines == 25

\* helpFlags
helpFlags == <<"--help", "-h", "help", "/?">>

\* what running the file with a help flag gives: cmd.CombinedOutput's err
\* (nil written "") and the output split at the newlines (none when empty)
Printed(n) == [err |-> "", lines |-> Numbered(n)]
Silent == [err |-> "", lines |-> <<>>]
Failed == [err |-> "exit status 1", lines |-> Numbered(2)]
TimedOut == [err |-> "signal: killed", lines |-> <<>>]

Outcomes == {Printed(2), Printed(helpLines + 1), Silent, Failed, TimedOut}

NoHelp == [flag \in Range(helpFlags) |-> TimedOut]

\* a file on disk: its base name, whether os.Stat succeeds on it, its size,
\* whether an execute permission bit is set, whether it can be opened and
\* read, its lines, whether the last line ends with a newline, the document
\* in it when it is valid JSON, whether glamour renders it, and what it
\* does when it is run with each help flag
File(name, lines, nl) ==
    [name |-> name, exists |-> TRUE, size |-> Len(lines) * 700, execBit |-> FALSE,
     readable |-> TRUE, lines |-> lines, nl |-> nl, json |-> Nil, renders |-> TRUE,
     help |-> NoHelp]

SourceFiles ==
    {File("m.go", lines, nl) : lines \in SeqsUpTo(GoLines, MaxLines), nl \in BOOLEAN}
    \cup {File("m.py", lines, TRUE) : lines \in SeqsUpTo(PythonLines, MaxLines)}
    \cup {File("m.js", lines, TRUE) : lines \in SeqsUpTo(JavaScriptLines, MaxLines)}
    \cup {File("m.rs", lines, TRUE) : lines \in SeqsUpTo(RustLines, MaxLines)}
    \cup {File("m.cpp", lines, TRUE) : lines \in SeqsUpTo(CppLines, MaxLines)}

\* text and data files, YAML files among them, with the lengths around the
\* length of the preview, and the same lines under a source extension
TextLengths == {0, 1, previewLines - 1, previewLines, previewLines + 1, previewLines + 2}

TextFiles ==
    {File(name, Numbered(n), nl) :
        name \in {"t.txt", "c.yaml", "M.java", "m.go"}, n \in TextLengths,
        nl \in BOOLEAN}

MarkdownFiles ==
    {[File("b.MD", lines, nl) EXCEPT !.renders = r] :
        lines \in SeqsUpTo({<<"#", "x">>, <<"x", "[l](t)">>}, 2),
        nl \in BOOLEAN, r \in BOOLEAN}

JSONFiles ==
    {[File("c.json", Numbered(n), TRUE) EXCEPT !.json = doc] :
        n \in 1..2, doc \in {Nil, JObj("a" :> JNum), JObj("a" :> JNum @@ "b" :> JNum)}}

ConfigFiles ==
    {File(name, lines, nl) :
        name \in {"c.ini", ".env"},
        lines \in SeqsUpTo({<<"#", "x">>, <<"[s]">>, <<"KEY=1">>, <<"k", "=", "x">>}, 2),
        nl \in BOOLEAN}

\* files that are not there or cannot be read
BrokenFiles ==
    {[File(name, <<>>, FALSE) EXCEPT !.exists = e, !.readable = FALSE] :
        name \in {"m.go", "m.py", "b.MD", "c.json", "c.ini", ".env", "t.txt"},
        e \in BOOLEAN}

\* executable files, some with an extension that has a strategy of its own
ExecutableFiles ==
    {[File("tool", <<>>, FALSE) EXCEPT !.execBit = TRUE, !.size = 2048, !.help = h] :
        h \in [Range(helpFlags) -> Outcomes]}
    \cup {[File(name, <<<<"func", "Foo", "(", ")", "{", "}">>>>, TRUE)
              EXCEPT !.execBit = TRUE, !.help = [NoHelp EXCEPT !["-h"] = o],
                     !.json = JObj("a" :> JNum)] :
            name \in {"parsec", "c.json", "b.MD", "m.go", "t.txt"},
            o \in {Printed(2), TimedOut}}

Files ==
    SourceFiles \cup TextFiles \cup MarkdownFiles \cup JSONFiles \cup ConfigFiles
    \cup BrokenFiles \cup ExecutableFiles

\* os.ReadFile then strings.Split(content, "\n"): a file that ends with a
\* newline, and the empty file, end with an empty piece
SplitLines(f) == IF f.nl \/ f.lines = <<>> THEN Append(f.lines, <<>>) ELSE f.lines

\* the lines bufio.Scanner yields before Scan returns false: the lines up to
\* the end of the file or to the first line longer than the buffer
Scanned(f) ==
    LET long == {i \in DOMAIN f.lines : f.lines[i] = tooLong}
    IN  IF long = {} THEN f.lines
        ELSE SubSeq(f.lines, 1, (CHOOSE i \in long : \A j \in long : i <= j) - 1)

\* scanner.Err() after the loop
ScanErr(f) == IF tooLong \in Range(f.lines) THEN "bufio.Scanner: token too long" ELSE ""

\* the sizes formatBytes tells apart
KB == 1024
MB == KB * 1024
GB == MB * 1024

\* fmt.Sprintf("%.1f", size/unit): the quotient rounded to tenths
OneDecimal(size, unit) ==
    LET tenths == (size * 10 + unit \div 2) \div unit
    IN  ToString(tenths \div 10) \o "." \o ToString(tenths % 10)

formatBytes(size) ==
    IF size >= GB THEN OneDecimal(size, GB) \o " GB"
    ELSE IF size >= MB THEN OneDecimal(size, MB) \o " MB"
    ELSE IF size >= KB THEN OneDecimal(size, KB) \o " KB"
    ELSE ToString(size) \o " B"

\* the FileSummary SummarizeFile starts from; "" is the unset Error and <<>>
\* the unset ExecutableHelp and RenderedContent
NewSummary(filePath) ==
    [Path |-> filePath, LineCount |-> 0, FunctionCount |-> 0,
     Functions |-> <<>>, Imports |-> <<>>, Types |-> <<>>, Structs |-> <<>>,
     Error |-> "", Headers |-> <<>>, Links |-> <<>>, ConfigKeys |-> <<>>,
     FileSize |-> 0, IsExecutable |-> FALSE, ExecutableHelp |-> <<>>,
     Content |-> <<>>, RenderedContent |-> <<>>, IsRendered |-> FALSE]

\* lines cut to the first n, with the marker line after them when cut
Preview(lines, n, marker) ==
    IF Len(lines) > n THEN Append(SubSeq(lines, 1, n), marker) ELSE lines

MoreLines(n) == <<"...", "(" \o ToString(n), "more", "lines)">>
Truncated == <<"...", "(truncated)">>

\* a faulty parseTextFile that keeps previewLines lines more than it should
parseTextFileLate(f, s) ==
    IF ~f.readable THEN [s EXCEPT !.Error = "Error reading file"]
    ELSE LET lines == SplitLines(f)
         IN  [s EXCEPT !.LineCount = Len(lines),
                       !.Content = Preview(lines, previewLines + 1,
                                           MoreLines(Len(lines) - previewLines))]

parseTextFile(f, s) ==
    IF ~f.readable THEN [s EXCEPT !.Error = "Error reading file"]
    ELSE LET lines == SplitLines(f)
         IN  [s EXCEPT !.LineCount = Len(lines),
                       !.Content = Preview(lines, previewLines,
                                           MoreLines(Len(lines) - previewLines))]

parseYAML(f, s) == parseTextFile(f, s)

\* the headers and links of the lines of a markdown file, in order
RECURSIVE MarkdownHeaders(_)
MarkdownHeaders(lines) ==
    IF lines = <<>> THEN <<>>
    ELSE LET line == Head(lines)
             hashes == {"#", "##", "###", "####", "#####", "######"}
         IN  (IF Len(line) >= 2 /\ line[1] \in hashes
              THEN <<line[1] \o " " \o Text(line, 2, Len(line))>> ELSE <<>>)
             \o MarkdownHeaders(Tail(lines))

RECURSIVE MarkdownLinks(_)
MarkdownLinks(lines) ==
    IF lines = <<>> THEN <<>>
    ELSE SelectSeq(Head(lines), LAMBDA tok : tok \in LinkTokens)
         \o MarkdownLinks(Tail(lines))

\* glamour's rendering of the lines
Rendered(lines) == [i \in DOMAIN lines |-> <<"styled">> \o lines[i]]

parseMarkdown(f, s) ==
    IF ~f.readable THEN [s EXCEPT !.Error = "Error reading file"]
    ELSE LET lines == SplitLines(f)
             s1 == [s EXCEPT !.LineCount = Len(lines),
                             !.Headers = MarkdownHeaders(lines),
                             !.Links = MarkdownLinks(lines)]
         IN  IF f.renders
             THEN [s1 EXCEPT !.RenderedContent = Rendered(lines), !.IsRendered = TRUE]
             ELSE [s1 EXCEPT !.Content = Preview(lines, previewLines, Truncated)]

\* every FileSummary parseJSON can return for the file
parseJSONFile(f, s) ==
    IF ~f.readable THEN {[s EXCEPT !.Error = "Error opening file"]}
    ELSE IF f.json = Nil THEN {[s EXCEPT !.Error = "Invalid JSON"]}
    ELSE {[s EXCEPT !.ConfigKeys = r.ConfigKeys, !.LineCount = Len(SplitLines(f))] :
            r \in parseJSON(f.json)}

\* the section heads and keys of the lines of an INI file
RECURSIVE INIKeys(_)
INIKeys(lines) ==
    IF lines = <<>> THEN <<>>
    ELSE LET line == Head(lines)
             eqs == {i \in 2..Len(line) : line[i] = "="}
             eq == CHOOSE i \in eqs : \A j \in eqs : i <= j
         IN  IF line = <<>> \/ StartsWith(line, "#") \/ StartsWith(line, ";")
             THEN INIKeys(Tail(lines))
             ELSE (IF line[1] \in DOMAIN SectionName
                   THEN <<"[" \o SectionName[line[1]] \o "]">> ELSE <<>>)
                  \o (IF eqs # {} THEN <<Text(line, 1, eq - 1)>> ELSE <<>>)
                  \o INIKeys(Tail(lines))

parseINI(f, s) ==
    IF ~f.readable THEN [s EXCEPT !.Error = "Error reading file"]
    ELSE LET lines == SplitLines(f)
         IN  [s EXCEPT !.LineCount = Len(lines),
                       !.ConfigKeys = INIKeys(lines),
                       !.Content = Preview(lines, iniPreviewLines,
                                           MoreLines(Len(lines) - iniPreviewLines))]

\* the variables of the lines of an ENV file, and the lines kept
RECURSIVE EnvKeys(_)
EnvKeys(lines) ==
    IF lines = <<>> THEN <<>>
    ELSE LET line == Head(lines)
         IN  (IF line # <<>> /\ ~StartsWith(line, "#") /\ line[1] \in DOMAIN EnvName
              THEN <<EnvName[line[1]]>> ELSE <<>>)
             \o EnvKeys(Tail(lines))

EnvContent(lines) ==
    LET kept == SelectSeq(lines, LAMBDA line : line # <<>> /\ ~StartsWith(line, "#"))
    IN  SubSeq(kept, 1, Min(Len(kept), envPreviewLines))

parseEnv(f, s) ==
    IF ~f.readable THEN [s EXCEPT !.Error = "Error opening file"]
    ELSE [s EXCEPT !.LineCount = Len(Scanned(f)),
                   !.ConfigKeys = EnvKeys(Scanned(f)),
                   !.Content = EnvContent(Scanned(f))]

\* the extensions of the switch of SummarizeFile
MarkdownExts == {<<".","m","d">>, <<".","m","a","r","k","d","o","w","n">>}
JSONExts == {<<".","j","s","o","n">>}
YAMLExts == {<<".","y","a","m","l">>, <<".","y","m","l">>}
INIExts == {<<".","i","n","i">>, <<".","c","f","g">>, <<".","c","o","n","f">>}
EnvExts == {<<".","e","n","v">>}
TextExts == {<<".","t","x","t">>, <<".","l","o","g">>, <<".","r","s","t">>,
             <<".","x","m","l">>, <<".","c","s","v">>}
GoExts == {<<".","g","o">>}
PythonExts == {<<".","p","y">>}
JavaScriptExts == {<<".","j","s">>, <<".","j","s","x">>, <<".","t","s">>,
                   <<".","t","s","x">>}
RustExts == {<<".","r","s">>}
CppExts == {<<".","c","p","p">>, <<".","c","c">>}

ScannedExts == GoExts \cup PythonExts \cup JavaScriptExts \cup RustExts \cup CppExts

\* strings.ToLower(filepath.Ext(filePath))
LowerExt(name) == ToLower(Ext(Chars[name]))

\* the loop body of the parser the switch picks for a source file
SourceLine(ext, line, inside, s) ==
    CASE ext \in GoExts -> GoLine(line, inside, s)
      [] ext \in PythonExts -> PythonLine(line, inside, s)
      [] ext \in JavaScriptExts -> JavaScriptLine(line, inside, s)
      [] ext \in RustExts -> RustLine(line, inside, s)
      [] ext \in CppExts -> CppLine(line, inside, s)

\* the parsers that read the whole file: every FileSummary the switch can
\* return for an extension that is not scanned line by line.  Every key of
\* languageConfigs is among the scanned extensions, so that the default case
\* always ends in parseTextFile.
WholeFile(ext, f, s) ==
    CASE ext \in MarkdownExts -> {parseMarkdown(f, s)}
      [] ext \in JSONExts -> parseJSONFile(f, s)
      [] ext \in YAMLExts -> {parseYAML(f, s)}
      [] ext \in INIExts -> {parseINI(f, s)}
      [] ext \in EnvExts -> {parseEnv(f, s)}
      [] OTHER -> {parseTextFile(f, s)}

\* utils.IsExecutableFile on the file (Unix-like systems)
IsExecutable(f) == f.exists /\ f.execBit

\* the usage text getExecutableHelp returns for the program itself
usageText == <<<<"Usage:", "parsec", "[directory]">>>>

\* the description getExecutableHelp returns when no flag gave help
executableInfo(f) ==
    <<<<"Executable:", f.name>>,
      <<"File", "size:", IF f.exists THEN formatBytes(f.size) ELSE "unknown">>>>

\* the call of SummarizeFile: where it stands, the next line of the scan and
\* whether the scan is inside a comment, the next help flag and the flags
\* the file was run with, and the FileSummary
Call(pc, s) ==
    [pc |-> pc, line |-> 1, inside |-> FALSE, flag |-> 1, invoked |-> <<>>,
     summary |-> s]

sumFrame == UNCHANGED <<ctlVars, walkerVars, unreadable, jsonVars, srcFile>>

\* SummarizeFile up to its first loop, or to its return when it runs none
SummarizeStartNoExecutableCheck ==
    /\ sumCall = Nil
    /\ LET f == srcFile
           s == NewSummary(f.name)
           sized == [s EXCEPT !.FileSize = f.size]
           ext == LowerExt(f.name)
       IN  IF ~f.exists
           THEN sumCall' = Call("done", [s EXCEPT !.Error = "Error getting file info"])
           ELSE IF ext \in ScannedExts
           THEN IF ~f.readable
                THEN sumCall' = Call("done", [sized EXCEPT !.Error = "Error opening file"])
                ELSE sumCall' = Call("scan", sized)
           ELSE \E r \in WholeFile(ext, f, sized) : sumCall' = Call("done", r)
    /\ sumFrame

SummarizeStart ==
    /\ sumCall = Nil
    /\ LET f == srcFile
           s == NewSummary(f.name)
           sized == [s EXCEPT !.FileSize = f.size]
           exe == [sized EXCEPT !.IsExecutable = TRUE]
           ext == LowerExt(f.name)
       IN  IF ~f.exists
           THEN sumCall' = Call("done", [s EXCEPT !.Error = "Error getting file info"])
           ELSE IF IsExecutable(f)
           THEN IF f.name \in {"parsec.exe", "parsec"}
                THEN sumCall' = Call("done", [exe EXCEPT !.ExecutableHelp = usageText])
                ELSE sumCall' = Call("probe", exe)
           ELSE IF ext \in ScannedExts
           THEN IF ~f.readable
                THEN sumCall' = Call("done", [sized EXCEPT !.Error = "Error opening file"])
                ELSE sumCall' = Call("scan", sized)
           ELSE \E r \in WholeFile(ext, f, sized) : sumCall' = Call("done", r)
    /\ sumFrame

\* one iteration of for scanner.Scan() of the parser of the file
ScanLine ==
    /\ sumCall # Nil
    /\ sumCall.pc = "scan"
    /\ sumCall.line <= Len(Scanned(srcFile))
    /\ LET r == SourceLine(LowerExt(srcFile.name), srcFile.lines[sumCall.line],
                           sumCall.inside, sumCall.summary)
       IN  sumCall' = [sumCall EXCEPT !.line = @ + 1, !.inside = r.inside,
                                      !.summary = r.summary]
    /\ sumFrame

\* Scan returns false: the line count, scanner.Err() and the return
ScanReturn ==
    /\ sumCall # Nil
    /\ sumCall.pc = "scan"
    /\ sumCall.line > Len(Scanned(srcFile))
    /\ LET counted == [sumCall.summary EXCEPT !.LineCount = sumCall.line - 1]
       IN  sumCall' = [sumCall EXCEPT
               !.pc = "done",
               !.summary = IF ScanErr(srcFile) # ""
                           THEN [counted EXCEPT !.Error = "Error reading file"]
                           ELSE counted]
    /\ sumFrame

\* one iteration of the loop of getExecutableHelp: the file is run with the
\* next flag, and its output is returned when it exits with nil error and
\* some output
ProbeFlagAgain ==
    /\ sumCall # Nil
    /\ sumCall.pc = "probe"
    /\ sumCall.flag <= Len(helpFlags)
    /\ LET flag == helpFlags[sumCall.flag]
           out == srcFile.help[flag]
           ran == [sumCall EXCEPT !.invoked = Append(@, flag), !.flag = @ + 1]
       IN  IF out.err = "" /\ out.lines # <<>> /\ sumCall.flag = Len(helpFlags)
           THEN sumCall' = [ran EXCEPT
                   !.pc = "done",
                   !.summary.ExecutableHelp = Preview(out.lines, helpLines, Truncated)]
           ELSE sumCall' = ran
    /\ sumFrame

ProbeFlag ==
    /\ sumCall # Nil
    /\ sumCall.pc = "probe"
    /\ sumCall.flag <= Len(helpFlags)
    /\ LET flag == helpFlags[sumCall.flag]
           out == srcFile.help[flag]
           ran == [sumCall EXCEPT !.invoked = Append(@, flag), !.flag = @ + 1]
       IN  IF out.err = "" /\ out.lines # <<>>
           THEN sumCall' = [ran EXCEPT
                   !.pc = "done",
                   !.summary.ExecutableHelp = Preview(out.lines, helpLines, Truncated)]
           ELSE sumCall' = ran
    /\ sumFrame

\* no flag gave help: the description of the executable is returned
ProbeFallback ==
    /\ sumCall # Nil
    /\ sumCall.pc = "probe"
    /\ sumCall.flag > Len(helpFlags)
    /\ sumCall' = [sumCall EXCEPT
           !.pc = "done", !.summary.ExecutableHelp = executableInfo(srcFile)]
    /\ sumFrame

\* one of the files is there and SummarizeFile is called on it
SummarizeInit ==
    /\ ControllerInit
    /\ jsonData = Nil
    /\ summaries = <<>>
    /\ srcFile \in Files
    /\ sumCall = Nil

SummarizeNext ==
    \/ SummarizeStart
    \/ ScanLine
    \/ ScanReturn
    \/ ProbeFlag
    \/ ProbeFallback

SummarizeSpec == SummarizeInit /\ [][SummarizeNext]_vars

----------------------------------------------------------------------------
(* The properties *)

\* what a key or a delivery may change of the controller: everything but the
\* commands in flight and the record of the last event
ctlState == <<currentDir, selectedPath, searchMode, searchQuery, allFiles, filteredFiles,
              files, cursor, showDirs, summary, content, isLoading, scrollPos,
              width, height, flWidth, flHeight, smWidth, smHeight, quit>>

\* the commands a step started
Issued == inflight' (-) inflight

\* the entry under the cursor
Sel == GetSelectedFile(files, cursor)

\* a file handleFileSelection summarizes
Summarizable(e) ==
    /\ ~e.IsDir
    /\ (e.Extension \in SupportedExtensions \/ Join(currentDir, e.Path) \in ExecBit)

\* the pane shows the summary of the file called name in the current directory
ShowsSummaryOf(name) ==
    /\ ~isLoading
    /\ summary # Nil
    /\ summary.Path = Rel(basePath, Join(currentDir, name))
    /\ content = formatSummaryForDisplay(summary)

\* list holds, each once and in some order, exactly the files of all whose
\* path has the characters of q in order, letter case ignored; for the empty
\* query list is all
IsFilterOf(list, all, q) ==
    IF q = <<>> THEN list = all
    ELSE /\ \A i, j \in DOMAIN list : list[i] = list[j] => i = j
         /\ {list[i] : i \in DOMAIN list} =
                {all[i] : i \in {n \in DOMAIN all : IsSubsequence(q, Chars[all[n].Path])}}

\* C1: a summarization or directory-preview result is applied to the summary
\* pane exactly when the path it is tagged with equals selectedPath at
\* delivery; a result with another tag leaves the controller state unchanged.
C1_AppliedIffTagIsSelected ==
    [][\A cmd \in BagToSet(inflight) :
          /\ HandleSummary(cmd) =>
                IF cmd.selectedPath = selectedPath
                THEN /\ summary' = SummaryMsg(cmd).summary
                     /\ ~isLoading'
                ELSE UNCHANGED ctlState
          /\ HandleDirectoryPreview(cmd) =>
                IF cmd.dirName = selectedPath
                THEN /\ content' = DirectoryPreviewMsg(cmd).content
                     /\ ~isLoading'
                ELSE UNCHANGED ctlState]_vars

\* the pane while a summarizable file is under the cursor
C2_SelectedWhileLoading ==
    (Sel # Nil /\ Summarizable(Sel)) =>
        /\ selectedPath = Sel.Path
        /\ isLoading \/ ShowsSummaryOf(Sel.Path)
        /\ isLoading => \E cmd \in BagToSet(inflight) :
                            cmd.type = "summarize" /\ cmd.selectedPath = Sel.Path

\* what turns the loading indicator on and off
C2_LoadingStep ==
    LET sel == GetSelectedFile(files', cursor')
    IN  /\ (selectedPath' # selectedPath /\ sel # Nil /\ Summarizable(sel)) => isLoading'
        /\ (isLoading /\ ~isLoading' /\ selectedPath' = selectedPath
                /\ Sel # Nil /\ Summarizable(Sel)) =>
              /\ lastEvent' = "SummaryMsg"
              /\ \E cmd \in BagToSet(inflight (-) inflight') :
                    cmd.type = "summarize" /\ cmd.selectedPath = selectedPath

\* C2: while a summarizable file C of the directory is selected the pane shows
\* the loading indicator or C's summary, never another file's; it shows the
\* loading indicator only while a request tagged C is in flight, so C's
\* summary once nothing is in flight; selecting C turns the indicator on and
\* only the delivery of a result tagged C turns it off while C stays selected.
C2_OnlyLatestSelectionShown == []C2_SelectedWhileLoading /\ [][C2_LoadingStep]_vars

\* C2 happens: the third of three files selected in a row is loading, the
\* result of an earlier one has just been delivered and dropped, and only the
\* third one's request is still in flight
C2_Witness ==
    /\ lastEvent = "SummaryMsg"
    /\ selectedPath = "bq"
    /\ isLoading
    /\ summary = Nil
    /\ inflight = SetToBag({SummarizeFileCmd(<<"bq">>, "bq")})

\* C3: after every handled event, while the displayed list is not empty,
\* selectedPath is the path of the entry under the cursor.
C3_SelectedPathIsCursorEntry ==
    (lastEvent # "Init" /\ Sel # Nil) => selectedPath = Sel.Path

\* C4: on a selection change the newly selected entry's kind decides the
\* action: a directory other than ".." starts one preview and no
\* summarization; ".." and a file neither summarizable nor executable start
\* nothing and show their static message with the loading indicator off; a
\* summarizable or executable file turns the loading indicator on and starts
\* one summarization tagged with its path.
C4_SelectionAction ==
    [][selectedPath' # selectedPath =>
        LET sel == GetSelectedFile(files', cursor')
        IN  /\ sel # Nil
            /\ sel.Path = selectedPath'
            /\ IF sel.IsDir /\ sel.Path # ".."
               THEN Issued = SetToBag({PreviewCmd(currentDir', sel.Path)})
               ELSE IF sel.IsDir
               THEN /\ Issued = EmptyBag
                    /\ ~isLoading'
                    /\ content'.kind = "parent"
               ELSE IF sel.Extension \in SupportedExtensions
                       \/ Join(currentDir', sel.Path) \in ExecBit
               THEN /\ isLoading'
                    /\ BagCardinality(Issued) = 1
                    /\ \A cmd \in BagToSet(Issued) :
                          cmd.type = "summarize" /\ cmd.selectedPath = sel.Path
               ELSE /\ Issued = EmptyBag
                    /\ ~isLoading'
                    /\ content' = UnsupportedContent(sel.Path)]_vars

\* C4 happens: the cursor moved from a file being summarized to a file of no
\* summarizable kind, which shows the static message and starts nothing
C4_Witness ==
    /\ lastEvent = "BrowseNavigate"
    /\ currentDir = <<"r", "d">>
    /\ selectedPath = "build"
    /\ content = UnsupportedContent("build")
    /\ ~isLoading
    /\ inflight = SetToBag({SummarizeFileCmd(<<"d", "a.go">>, "a.go")})

\* C5: every ListDirectory call on the shared Walker returns exactly the
\* entries of its own directory: none of another directory's, none missing.
C5_CallsReturnOwnEntries ==
    \A i \in DOMAIN calls :
        calls[i].pc = "done" =>
            {calls[i].ret[k] : k \in DOMAIN calls[i].ret} =
                {ListDirectory(calls[i].dir).files[k] :
                    k \in DOMAIN ListDirectory(calls[i].dir).files}

\* the names a listing keeps: not hidden, and no directory of the deny list
KeptNames(dirPath) ==
    LET Keeps(name) ==
            /\ Chars[name][1] # "."
            /\ ~(IsDirPath(Join(dirPath, name))
                    /\ name \in {"node_modules", "vendor", "target", "build", "dist"})
    IN  SelectSeq(Tree[dirPath], Keeps)

\* C6: a successful listing of D returns, in enumeration order, exactly the
\* children of D that are not hidden and are no deny-listed directory,
\* after one first entry ".." (a directory) when D is not the root, and with no
\* ".." entry when D is the root.
C6_ListingIsFilteredChildren ==
    \A i \in DOMAIN calls :
        (calls[i].pc = "done" /\ ~calls[i].err) =>
            LET ret == calls[i].ret
                dir == calls[i].dir
                lead == IF dir = basePath THEN <<>> ELSE <<"..">>
            IN  /\ [k \in DOMAIN ret |-> ret[k].Path] = lead \o KeptNames(dir)
                /\ \A k \in DOMAIN ret :
                      ret[k].IsDir = (ret[k].Path = ".." \/ IsDirPath(Join(dir, ret[k].Path)))

\* the program ends on a quit key only, and handles keys until then
C7_Alive ==
    /\ quit => lastEvent = "BrowseQuit"
    /\ (~quit /\ ~searchMode) => ENABLED (\E k \in Keys : BrowseScroll(k) \/ BrowseQuit(k))

\* the delivery of a listing or a preview whose directory cannot be read
C7_FailureStep ==
    /\ \A cmd \in BagToSet(inflight) :
          /\ (HandleLoadFiles(cmd) /\ cmd.dir \in unreadable) =>
                /\ allFiles' = <<>>
                /\ files' = <<>>
                /\ ~quit'
          /\ (HandleDirectoryPreview(cmd) /\ Join(cmd.dir, cmd.dirName) \in unreadable
                /\ Sel # Nil /\ Sel.Path = cmd.dirName) =>
                /\ content' = PreviewErrorContent(cmd.dirName)
                /\ ~quit'
    /\ quit' # quit => lastEvent' = "BrowseQuit"

\* C7: a listing whose directory cannot be read is delivered as the empty
\* list, so allFiles and the displayed list become empty; a preview whose
\* directory cannot be read shows the error text; neither ends the program,
\* which only a quit key does, and until then keys stay handled.
C7_ListingFailureIsEmptyList == []C7_Alive /\ [][C7_FailureStep]_vars

\* C7 happens: Enter on a directory that cannot be read gave an empty list,
\* and a refresh key was handled afterwards
C7_Witness ==
    /\ lastEvent = "BrowseRefresh"
    /\ currentDir = <<"r", "u">>
    /\ currentDir \in unreadable
    /\ allFiles = <<>>
    /\ files = <<>>
    /\ ~quit

\* C8: after Escape in Searching the controller is Browsing, the query is
\* empty and the displayed list is allFiles.
C8_EscapeRestoresAll ==
    lastEvent = "SearchEscape" =>
        /\ ~searchMode
        /\ searchQuery = <<>>
        /\ files = allFiles

\* C8 happens: Escape was pressed while a filter that had dropped entries was
\* on display (filteredFiles still holds it)
C8_Witness ==
    /\ lastEvent = "SearchEscape"
    /\ filteredFiles # allFiles
    /\ files = allFiles
    /\ allFiles # <<>>

\* C9 as stated: after Enter in Searching the controller is Browsing and the
\* displayed list is filteredFiles.
C9_EnterShowsFilteredFiles ==
    lastEvent = "SearchEnter" => (~searchMode /\ files = filteredFiles)

\* C9: Enter in Searching leads to Browsing and leaves the displayed list,
\* filteredFiles, the query and the cursor as they are; the displayed list is
\* filteredFiles whenever the query is not empty; a cursor key in Browsing
\* afterwards leaves the displayed list as it is and moves within it.
C9_EnterKeepsDisplayedList ==
    [][/\ lastEvent' = "SearchEnter" =>
            /\ searchMode /\ ~searchMode'
            /\ UNCHANGED <<files, filteredFiles, searchQuery, cursor>>
            /\ searchQuery # <<>> => files' = filteredFiles'
       /\ lastEvent' = "BrowseNavigate" =>
            /\ UNCHANGED <<files, filteredFiles, searchQuery>>
            /\ files # <<>> => (cursor' \in 0..(Len(files) - 1)
                                   /\ selectedPath' = files[cursor' + 1].Path)]_vars

\* C9 happens: Enter was pressed on a filter that had dropped entries
C9_Witness ==
    /\ lastEvent = "SearchEnter"
    /\ ~searchMode
    /\ searchQuery # <<>>
    /\ files = filteredFiles
    /\ files # <<>>
    /\ Len(files) < Len(allFiles)

\* both lists are the filter of allFiles by the new query; no command starts
C10_Refiltered ==
    /\ filteredFiles' = files'
    /\ IsFilterOf(files', allFiles, searchQuery')
    /\ inflight' = inflight
    /\ UNCHANGED allFiles

\* C10: in Searching a printable character appended to the query, and a
\* Backspace on a non-empty query, set filteredFiles and the displayed list to
\* the fuzzy filter of allFiles by the new query (allFiles for the empty
\* query) and start no command; Backspace on the empty query changes nothing.
C10_KeystrokeRefilters ==
    [][/\ (lastEvent' = "SearchDefault" /\ searchQuery' # searchQuery) =>
            /\ \E c \in RuneChars : searchQuery' = Append(searchQuery, c)
            /\ C10_Refiltered
       /\ (lastEvent' = "SearchBackspace" /\ searchQuery # <<>>) =>
            /\ searchQuery' = SubSeq(searchQuery, 1, Len(searchQuery) - 1)
            /\ C10_Refiltered
       /\ (lastEvent' = "SearchBackspace" /\ searchQuery = <<>>) =>
            UNCHANGED <<ctlState, inflight>>]_vars

\* C10 happens: Backspace shortened a two-character query to "d", and the two
\* entries of the listing that match it are displayed
C10_Witness ==
    /\ lastEvent = "SearchBackspace"
    /\ searchMode
    /\ searchQuery = <<"d">>
    /\ Len(files) = 2
    /\ Len(allFiles) > 2
    /\ files = filteredFiles

\* a step of the default case that changed the query was a printable key,
\* the character now at the end of the query; a step that left the query as
\* it was, a key that is not printable (a printable key always lengthens it)
C11_Typed == lastEvent' = "SearchDefault" /\ searchQuery' # searchQuery
C11_NotPrintable == lastEvent' = "SearchDefault" /\ searchQuery' = searchQuery

\* the typed character is a command character appended to the query; the
\* program does not quit, no command starts, the directories stay as toggled
\* and the mode stays Searching
C11_Appended ==
    /\ \E c \in CommandChars : searchQuery' = Append(searchQuery, c)
    /\ searchMode'
    /\ inflight' = inflight
    /\ UNCHANGED <<quit, showDirs, currentDir, allFiles, selectedPath>>

\* Searching ends only by Escape or Enter
C11_LeavesSearching ==
    (searchMode /\ ~searchMode') => lastEvent' \in {"SearchEscape", "SearchEnter"}

\* C11 as stated: while Searching, q r t j k / are appended to the query and
\* do not quit, refresh, toggle the directories or move the cursor; the other
\* keys of the default case change nothing; only Escape and Enter leave
\* Searching.
C11_CommandKeysOnlyType ==
    [][/\ C11_Typed => (C11_Appended /\ cursor' = cursor)
       /\ C11_NotPrintable => UNCHANGED <<ctlState, inflight>>
       /\ C11_LeavesSearching]_vars

\* C11: while Searching, q r t j k / are appended to the query and do not
\* quit, refresh or toggle the directories, and the cursor is not moved by
\* the key but only brought back into range: it is put on the last entry of
\* the new filtered list when that list is not empty and ends before it, on
\* index 0 when it was negative, and stays where it is otherwise; the other
\* keys of the default case change nothing; only Escape and Enter leave
\* Searching.
C11_CommandKeysTypeAndClamp ==
    [][/\ C11_Typed =>
            /\ C11_Appended
            /\ cursor' = IF files' # <<>> /\ cursor >= Len(files')
                         THEN Len(files') - 1 ELSE Max(0, cursor)
       /\ C11_NotPrintable => UNCHANGED <<ctlState, inflight>>
       /\ C11_LeavesSearching]_vars

\* C11 happens: "q" was typed while Searching with the directories hidden and
\* the cursor below the first entry; the query is "q", the directories are
\* still hidden and the cursor is on the only entry left
C11_Witness ==
    /\ lastEvent = "SearchDefault"
    /\ searchMode
    /\ searchQuery = <<"q">>
    /\ ~showDirs
    /\ Len(files) = 1
    /\ Len(allFiles) > 1
    /\ cursor = 0
    /\ selectedPath \notin {"", files[1].Path}
    /\ ~quit

\* list can be had from all by leaving entries out: its entries are entries
\* of all, in the order all has them, each taken once
RECURSIVE IsOrderedSubsequence(_, _)
IsOrderedSubsequence(list, all) ==
    IF list = <<>> THEN TRUE
    ELSE IF all = <<>> THEN FALSE
    ELSE IF Head(list) = Head(all)
         THEN IsOrderedSubsequence(Tail(list), Tail(all))
         ELSE IsOrderedSubsequence(list, Tail(all))

\* the number of times e occurs in list
Occurrences(list, e) == Cardinality({i \in DOMAIN list : list[i] = e})

\* C12 as stated: in every reachable state filteredFiles is a subsequence of
\* allFiles that preserves relative order, whatever the ranking.
C12_OrderedSubsequence == IsOrderedSubsequence(filteredFiles, allFiles)

\* C12: in every reachable state every entry of filteredFiles is an entry of
\* allFiles, and none occurs in filteredFiles more often than in allFiles;
\* the order is the ranker's.
C12_SubCollection ==
    \A i \in DOMAIN filteredFiles :
        /\ \E j \in DOMAIN allFiles : allFiles[j] = filteredFiles[i]
        /\ Occurrences(filteredFiles, filteredFiles[i])
              <= Occurrences(allFiles, filteredFiles[i])

\* C12 happens: a query of one character matched two entries and the ranker
\* returned them in the order opposite to the listing's
C12_Witness ==
    /\ searchMode
    /\ Len(searchQuery) = 1
    /\ Len(filteredFiles) = 2
    /\ Len(allFiles) > 2
    /\ \E i, j \in DOMAIN allFiles :
          /\ i < j
          /\ filteredFiles = <<allFiles[j], allFiles[i]>>

\* the last scroll position Scroll allows: the lines of the content beyond
\* the available height
MaxScroll == Max(0, LineCount(content) - AvailableHeight(smHeight))

\* C13: after every operation that affects the summary view the scroll
\* position lies between 0 and the number of lines of the current content
\* beyond the available height.
C13_ScrollInRange == scrollPos \in 0..MaxScroll

\* the last index of the list the cursor runs over: the list handed to the
\* file list, the directories included also while they are hidden
LastIndex == Len(files) - 1

\* Browsing, a list that is not empty, and the key k handled by the file list
C14_ListKey(k) ==
    /\ lastEvent' = "BrowseNavigate"
    /\ files # <<>>
    /\ BrowseNavigate(k, MaxInflight)

\* Up, k, Down and j move the cursor by one entry and stop at the ends; Home
\* and End put it on the first and the last entry; the cursor stays in range
C14_MovesWithinList(k) ==
    /\ k.Str \in {"up", "k"} => cursor' = IF cursor > 0 THEN cursor - 1 ELSE 0
    /\ k.Str \in {"down", "j"} =>
            cursor' = IF cursor < LastIndex THEN cursor + 1 ELSE LastIndex
    /\ k.Str = "home" => cursor' = 0
    /\ k.Str = "end" => cursor' = LastIndex
    /\ cursor' \in 0..LastIndex

\* C14 as stated: in Browsing with a list that is not empty, Up/k and Down/j
\* move the cursor by one entry, Home and End put it on the first and last
\* entry, PageUp and PageDown move it by 10 entries, and after any of these
\* keys the cursor lies in [0, len-1].
C14_CursorKeysAndPages ==
    [][\A k \in ListKeys :
          /\ C14_ListKey(k) => C14_MovesWithinList(k)
          /\ (files # <<>> /\ BrowseScroll(k)) =>
                /\ k.Str = "pgup" => cursor' = Max(0, cursor - 10)
                /\ k.Str = "pgdown" => cursor' = Min(LastIndex, cursor + 10)
                /\ cursor' \in 0..LastIndex]_vars

\* C14: in Browsing with a list that is not empty, Up/k and Down/j move the
\* cursor by one entry, Home and End put it on the first and last entry, and
\* after any of these keys the cursor lies in [0, len-1], len the length of
\* the list handed to the file list; PageUp and PageDown leave the cursor and
\* the list as they are and scroll the summary pane by 5 lines within its
\* range.
C14_CursorKeysAndScroll ==
    [][\A k \in ListKeys :
          /\ C14_ListKey(k) => C14_MovesWithinList(k)
          /\ (files # <<>> /\ BrowseScroll(k)) =>
                /\ UNCHANGED <<cursor, files, selectedPath>>
                /\ cursor' \in 0..LastIndex
                /\ k.Str = "pgup" =>
                      scrollPos' = Max(0, Min(MaxScroll, scrollPos - 5))
                /\ k.Str = "pgdown" =>
                      scrollPos' = Max(0, Min(MaxScroll, scrollPos + 5))]_vars

\* C14 happens: a key handled by the file list has put the cursor on the last
\* of several entries and that entry is the selection
C14_Witness ==
    /\ lastEvent = "BrowseNavigate"
    /\ Len(files) > 1
    /\ cursor = LastIndex
    /\ selectedPath = files[cursor + 1].Path

\* the entries of list that are files or the ".." entry
RECURSIVE FilesAndParent(_)
FilesAndParent(list) ==
    IF list = <<>> THEN <<>>
    ELSE (IF ~Head(list).IsDir \/ Head(list).Path = ".." THEN <<Head(list)>> ELSE <<>>)
         \o FilesAndParent(Tail(list))

\* the file list as View renders it
ListView == FileListView(files, cursor, showDirs, flHeight)

\* with the directories hidden, the listing on display renders its files,
\* and the ".." entry when it has one, and the footer says so
C15_RendersFilesAndParent ==
    (~showDirs /\ files # <<>>) =>
        /\ ListView.entries = FilesAndParent(files)
        /\ ListView.dirsHidden

\* C15: with the directories hidden by t, a listed directory renders exactly
\* its file entries, plus the ".." entry when it is not the root, and the
\* footer states that directories are hidden; the toggle does not change
\* allFiles.
C15_HiddenDirsView ==
    /\ []C15_RendersFilesAndParent
    /\ [][showDirs' # showDirs => UNCHANGED allFiles]_vars

\* everything of the controller but currentDir
C16_Rest ==
    <<selectedPath, searchMode, searchQuery, allFiles, filteredFiles, files,
      cursor, showDirs, smVars, dimVars, quit>>

C17_EnteredListingDelivered ==
    /\ lastEvent = "BrowseEnter"
    /\ Sel # Nil /\ Sel.IsDir
    /\ lastEvent' = "LoadFilesMsg"
    /\ BagIn(LoadFilesCmd(currentDir), inflight (-) inflight')

\* C17: after Enter on a directory entry, when the listing of the new
\* directory is delivered the cursor is put on the first entry of the new
\* listing, whatever index it had in the previous listing.
C17_CursorResetOnListing ==
    [][C17_EnteredListingDelivered => (files' # <<>> => cursor' = 0)]_vars

\* the set of the keys of a summary
ConfigKeySet(s) == {s.ConfigKeys[i] : i \in DOMAIN s.ConfigKeys}

\* the document {"a": {"b": 1}, "c": [1, 2]}
C18_Doc == JObj("a" :> JObj("b" :> JNum) @@ "c" :> JArr(<<JNum, JNum>>))

\* C18: summarizing {"a": {"b": 1}, "c": [1, 2]} yields the config keys
\* "a", "a.b", "c" and "c[0]" as a set: an array value contributes a key path
\* with an [0] segment for its first element.
C18_ArrayContributesIndexKey ==
    jsonData = C18_Doc =>
        \A i \in DOMAIN summaries :
            ConfigKeySet(summaries[i]) =
                {<<"a">>, <<"a", ".", "b">>, <<"c">>, <<"c", "[0]">>}

\* the dotted segments of a key path: the keys it is made of
Segments(path) == Cardinality({i \in DOMAIN path : path[i] \in KeyNames})

\* the keys of the objects found in v at any depth
RECURSIVE KeysWithin(_)
KeysWithin(v) ==
    CASE v.t = "obj" ->
            DOMAIN v.m \cup UNION {KeysWithin(v.m[k]) : k \in DOMAIN v.m}
      [] v.t = "arr" -> UNION {KeysWithin(v.e[i]) : i \in DOMAIN v.e}
      [] OTHER -> {}

\* what is left of v when every array is cut down to its first element
RECURSIVE FirstElements(_)
FirstElements(v) ==
    CASE v.t = "obj" -> JObj([k \in DOMAIN v.m |-> FirstElements(v.m[k])])
      [] v.t = "arr" ->
            IF v.e = <<>> THEN v ELSE JArr(<<FirstElements(v.e[1])>>)
      [] OTHER -> v

\* the key a key path ends with
LastKey(path) == path[Len(path)]

C20_SameSummaryTwice ==
    \A i, j \in DOMAIN summaries : summaries[i] = summaries[j]

----------------------------------------------------------------------------
(* The program started in a directory that holds one file of a type the     *)
(* README lists as supported, which is not executable                       *)

\* one file name for each extension of the README's table of supported types
ReadmeNames ==
    {"m.go", "m.py", "m.js", "m.ts", "m.rs", "m.java", "m.c", "m.cpp", "m.cc",
     "n.md", "n.markdown", "n.rst", "c.json", "c.yaml", "c.ini", "c.env",
     "d.xml", "d.csv", "d.log"}

ReadmeFiles == {File(name, <<<<"x">>>>, TRUE) : name \in ReadmeNames}

ListedInit ==
    /\ ControllerInit
    /\ jsonData = Nil
    /\ summaries = <<>>
    /\ srcFile \in ReadmeFiles
    /\ sumCall = Nil

\* the keys that refresh the listing and move the cursor
ListedKey ==
    \E k \in Keys :
        \/ BrowseRefresh(k, MaxSelInflight)
        \/ BrowseNavigate(k, MaxSelInflight)

ListedNext == DeliverLoadFiles \/ ListedKey

ListedSpec == ListedInit /\ [][ListedNext]_vars

----------------------------------------------------------------------------
(* core.Summarizer: the summaries SummarizeFile returns *)

\* SummarizeFile has returned
Returned == sumCall # Nil /\ sumCall.pc = "done"

\* no extraction field of the FileSummary is filled
NoExtraction(s) ==
    /\ s.Functions = <<>> /\ s.Imports = <<>> /\ s.Types = <<>> /\ s.Structs = <<>>
    /\ s.Headers = <<>> /\ s.Links = <<>> /\ s.ConfigKeys = <<>>
    /\ s.Content = <<>> /\ s.ExecutableHelp = <<>>

\* C21: whenever the FileSummary SummarizeFile returns has Error set (stat,
\* open or read failure, invalid JSON, an error part-way through a scan),
\* all its extraction fields are empty.
C21_ErrorMeansNoExtraction ==
    (Returned /\ sumCall.summary.Error # "") => NoExtraction(sumCall.summary)

\* the number of lines of the file, the newlines delimiting them: the pieces
\* the newlines cut the content into
NewlineDelimited(f) == Len(SplitLines(f))

\* C22: every FileSummary returned without Error, whichever branch produced
\* it, has FileSize equal to the size os.Stat gives and LineCount equal to
\* the number of newline-delimited lines of the file.
C22_SizeAndLineCount ==
    (Returned /\ sumCall.summary.Error = "") =>
        /\ sumCall.summary.FileSize = srcFile.size
        /\ sumCall.summary.LineCount = NewlineDelimited(srcFile)

\* getExecutableHelp alone: SummarizeFile is called on an executable file.
\* The goroutine that runs it goes on until the call returns: a run of the
\* file with a help flag ends, or is killed when its context times out.
ProbeInit ==
    /\ ControllerInit
    /\ jsonData = Nil
    /\ summaries = <<>>
    /\ srcFile \in ExecutableFiles
    /\ sumCall = Nil

ProbeNext ==
    \/ SummarizeStart
    \/ ProbeFlag
    \/ ProbeFallback

ProbeSpec == ProbeInit /\ [][ProbeNext]_vars /\ WF_vars(ProbeNext)

\* running the file with the flag gives help: nil error and some output
GivesHelp(f, flag) == f.help[flag].err = "" /\ f.help[flag].lines # <<>>

\* the flags the file was run with are the first help flags, in order and
\* once each, and none but the last gave help
ProbedInOrder ==
    sumCall # Nil =>
        /\ Len(sumCall.invoked) <= Len(helpFlags)
        /\ sumCall.invoked = SubSeq(helpFlags, 1, Len(sumCall.invoked))
        /\ \A i \in 1..(Len(sumCall.invoked) - 1) : ~GivesHelp(srcFile, sumCall.invoked[i])

\* what the probing returns: the output of the flag that gave help, cut to
\* its first helpLines lines with the marker after them when it is longer,
\* or the description with the file name and the size after four flags that
\* gave none; Error is not set
ProbeResult ==
    (Returned /\ sumCall.invoked # <<>>) =>
        LET last == sumCall.invoked[Len(sumCall.invoked)]
            out == srcFile.help[last].lines
            help == sumCall.summary.ExecutableHelp
        IN  /\ sumCall.summary.Error = ""
            /\ IF GivesHelp(srcFile, last)
               THEN help = IF Len(out) > helpLines
                           THEN Append(SubSeq(out, 1, helpLines), Truncated)
                           ELSE out
               ELSE /\ sumCall.invoked = helpFlags
                    /\ help = <<<<"Executable:", srcFile.name>>,
                                <<"File", "size:", formatBytes(srcFile.size)>>>>

C24_ExecutableBranchOnly ==
    (Returned /\ IsExecutable(srcFile)) =>
        LET s == sumCall.summary
        IN  /\ s.IsExecutable
            /\ s.ExecutableHelp # <<>>
            /\ s.Functions = <<>> /\ s.Imports = <<>> /\ s.Types = <<>>
            /\ s.Structs = <<>> /\ s.FunctionCount = 0
            /\ s.Headers = <<>> /\ s.Links = <<>> /\ s.ConfigKeys = <<>>
            /\ s.Content = <<>> /\ s.RenderedContent = <<>> /\ ~s.IsRendered

\* the summary of an executable .json file that holds a valid document
C24_Witness ==
    /\ Returned
    /\ IsExecutable(srcFile)
    /\ LowerExt(srcFile.name) \in JSONExts
    /\ srcFile.json # Nil
    /\ sumCall.summary.ExecutableHelp # <<>>

\* the block markers of a line: the comment markers of the C-like languages,
\* the triple quotes of Python, which open and close alike
IsPython == LowerExt(srcFile.name) \in PythonExts
Quotes(line) == Cardinality({i \in DOMAIN line : line[i] \in {"\"\"\"", "'''"}})
OpensBlock(line) == IF IsPython THEN Quotes(line) >= 1 ELSE Contains(line, "/*")
ClosesBlock(line, inside) ==
    IF IsPython THEN Quotes(line) >= (IF inside THEN 1 ELSE 2)
    ELSE Contains(line, "*/")

\* the line ScanLine scans, and whether it is blank or a one-line comment
ScannedLine == srcFile.lines[sumCall.line]
SkippedFirst(line) ==
    line = <<>> \/ StartsWith(line, IF IsPython THEN "#" ELSE "//")

\* C25: in every source scanner a line with a block-open marker puts the
\* scanner inside, every line scanned while inside is skipped, the line with
\* the close marker included, and the scanner is outside after the close
\* marker: after a line with both markers (a one-line /* ... */ comment, a
\* one-line triple-quoted docstring) the scanner is outside.
C25_BlockCommentSpan ==
    [][(sumCall # Nil /\ sumCall.pc = "scan" /\ sumCall'.line = sumCall.line + 1
        /\ ~SkippedFirst(ScannedLine)) =>
          /\ (sumCall.inside \/ OpensBlock(ScannedLine)) =>
                /\ sumCall'.summary = sumCall.summary
                /\ sumCall'.inside = ~ClosesBlock(ScannedLine, sumCall.inside)
          /\ ~(sumCall.inside \/ OpensBlock(ScannedLine)) => ~sumCall'.inside]_vars

\* a step of the scan of a source file
ScanStep == sumCall # Nil /\ sumCall.pc = "scan" /\ sumCall'.line = sumCall.line + 1

\* list is old, or old with one more name at its end
AtMostOneMore(old, list) ==
    list = old \/ (Len(list) = Len(old) + 1 /\ SubSeq(list, 1, Len(old)) = old)

\* the line is a Go function definition: func and a name at its start
IsGoFunc(line) == Len(line) >= 2 /\ line[1] = "func" /\ IsWord(line[2])

IsTextFile(f) ==
    LowerExt(f.name) \notin
        (MarkdownExts \cup JSONExts \cup INIExts \cup EnvExts \cup ScannedExts)

FileSelected == Sel # Nil /\ Sel.Path = srcFile.name /\ selectedPath = srcFile.name

\* C28: selecting a non-executable file whose extension the README lists as
\* supported starts a summarization request for it and never shows the
\* "not supported" message.
C28_ReadmeTypesSummarized ==
    (srcFile # Nil /\ FileSelected) =>
        /\ content # UnsupportedContent(srcFile.name)
        /\ \/ isLoading
           \/ ShowsSummaryOf(srcFile.name)
        /\ lastEvent = "LoadFilesMsg" =>
              BagIn(SummarizeFileCmd(<<srcFile.name>>, srcFile.name), inflight)

----------------------------------------------------------------------------
(* Navigation with results and listings on their way *)

\* the path, relative to the start directory, of the selected entry of the
\* current directory
SelectedRel == Rel(basePath, Join(currentDir, selectedPath))

\* a result was delivered and changed what the summary pane holds
ResultApplied ==
    /\ lastEvent' \in {"SummaryMsg", "DirectoryPreviewMsg"}
    /\ smVars' # smVars

\* C29: the summary shown belongs to the file currentDir/selectedPath: a
\* summarization or directory-preview result asked for while browsing one
\* directory is never displayed after the user has navigated to another
\* directory, even when the entry selected there has the same name.
C29_ResultOfCurrentDirectory ==
    [][ResultApplied =>
          /\ summary' # Nil => summary'.Path = SelectedRel'
          /\ content'.kind = "preview" => content'.path = SelectedRel']_vars

\* the summary of a.go of the start directory is displayed while a.go of the
\* directory d is selected
C29_SameNameShown ==
    ~(/\ currentDir = <<"r", "d">>
      /\ selectedPath = "a.go"
      /\ ~isLoading
      /\ summary # Nil
      /\ summary.Path = <<"a.go">>)

\* C30: currentDir never leaves the subtree of the configured root, under
\* every interleaving of Enter keys and listing deliveries, two Enter
\* presses on the ".." entry of the still-displayed old listing before the
\* new listing arrives included.
C30_WithinRoot == HasPrefix(currentDir, basePath)

----------------------------------------------------------------------------
(* The listing held and the directory it belongs to *)

NoListingInFlight == \A c \in BagToSet(inflight) : c.type # "load"

\* C31: whenever no listing request is in flight, allFiles is the listing of
\* currentDir, in whatever order the requests of Enter completed
C31_ListingOfCurrentDir ==
    NoListingInFlight => allFiles = LoadFilesMsg(LoadFilesCmd(currentDir)).files

\* C32: whenever currentDir is not the root and no listing is in flight,
\* allFiles holds the ".." entry, also when the listing of currentDir failed
C32_ParentEntryListed ==
    (currentDir # basePath /\ NoListingInFlight) =>
        \E i \in DOMAIN allFiles : allFiles[i].Path = ".."

----------------------------------------------------------------------------
(* The loading indicator *)

\* C33: the loading indicator is never displayed with no request in flight
\* (once every background task has completed it has been replaced by a
\* summary, a directory preview or a static message)
C33_LoadingHasRequest ==
    Displayed(SM) = loadingText => inflight # EmptyBag

----------------------------------------------------------------------------
(* The displayed list and the query *)

\* C34: in every reachable state the displayed list is a fuzzy filter of
\* allFiles by searchQuery, which is allFiles itself when the query is empty
C34_DisplayedIsFilterOfQuery == files \in fuzzyFilter(allFiles, searchQuery)

----------------------------------------------------------------------------
(* The cursor and the entries it can name *)

\* C35: in every reachable state the cursor is not negative, and
\* GetSelectedFile indexes the list only at positions 0..len-1
C35_CursorInRange ==
    /\ cursor >= 0
    /\ ~(Len(files) = 0 \/ cursor >= Len(files)) => cursor + 1 \in DOMAIN files

\* C36: while the directories are hidden the entry under the cursor is one of
\* the entries the file list renders
C36_CursorEntryRendered ==
    (~showDirs /\ Sel # Nil) =>
        \E i \in DOMAIN ListView.entries : ListView.entries[i] = Sel

----------------------------------------------------------------------------
(* ui.FileListModel.View in a narrow window: the names of the rows *)

\* tea.WindowSizeMsg of narrow terminals and of the window initialModel
\* assumes; sizeComponents gives the panes of the first two the width 10
NarrowWindowSizes == {[Width |-> 20, Height |-> initialHeight],
                      [Width |-> 24, Height |-> initialHeight],
                      [Width |-> 28, Height |-> initialHeight],
                      [Width |-> initialWidth, Height |-> initialHeight]}

\* View: the columns of a row beside the name
fixedWidth == 9

\* View, "File name (truncate if too long)": whether the name of a row is
\* cut in a pane of width w, and the upper bound of the slice
\* name[:maxNameLength-3] that cuts it
nameTruncation(name, w) ==
    LET maxNameLength == w - fixedWidth
    IN  [truncated |-> maxNameLength > 0 /\ Len(Chars[name]) > maxNameLength,
         cut |-> maxNameLength - 3]

\* model.View renders the panes only for a window that has a size
RendersPanes == width > 0 /\ height > 0

NarrowWindowSize == \E msg \in NarrowWindowSizes : HandleWindowSize(msg)

NarrowKey == \E k \in ListKeys : BrowseNavigate(k, MaxInflight)

NarrowNext == Deliver \/ NarrowWindowSize \/ NarrowKey

NarrowSpec == Init /\ [][NarrowNext]_vars

\* C37: for every window size and every entry name, whenever View truncates
\* the name of a row the bound maxNameLength-3 of the slice is at least 0
C37_CutNotNegative ==
    (RendersPanes /\ files # <<>>) =>
        \A i \in DOMAIN ListView.entries :
            LET t == nameTruncation(ListView.entries[i].Path, flWidth)
            IN  t.truncated => t.cut >= 0

----------------------------------------------------------------------------
(* ui.SummaryModel.View: the lines of the content it reads *)

\* a faulty View that takes availableHeight lines from scrollPos on without
\* looking at the number of lines
SummaryViewUnclamped(sm, h) ==
    IF sm.isLoading \/ (sm.summary # Nil /\ sm.summary.Error) THEN {}
    ELSE LET startIdx == sm.scrollPos
             endIdx == startIdx + AvailableHeight(h)
         IN  startIdx .. (endIdx - 1)

\* SummaryModel.View: the indices i of lines[i] the loop over the visible
\* window reads; none while loading and for a summary with an error
SummaryView(sm, h) ==
    IF sm.isLoading \/ (sm.summary # Nil /\ sm.summary.Error) THEN {}
    ELSE LET lines == LineCount(sm.content)
             startIdx == sm.scrollPos
             endIdx == IF startIdx + AvailableHeight(h) > lines THEN lines
                       ELSE startIdx + AvailableHeight(h)
         IN  startIdx .. (endIdx - 1)

\* C38: rendering the summary pane reads only lines of the current content,
\* for every reachable scroll position, content and height
C38_ViewReadsWithinContent ==
    SummaryView(SM, smHeight) \subseteq 0 .. (LineCount(content) - 1)

\* C38 happens: the pane is scrolled, then the window has grown, so that the
\* window of lines from the scroll position on passes the end of the content
C38_Witness ==
    /\ lastEvent = "WindowSizeMsg"
    /\ ~isLoading
    /\ scrollPos > 0
    /\ scrollPos + AvailableHeight(smHeight) > LineCount(content)
    /\ SummaryView(SM, smHeight) # {}

----------------------------------------------------------------------------
(* Quitting *)

\* tea.KeyMsg of Ctrl+C
CtrlC == [Type |-> "ctrl+c", Str |-> "ctrl+c"]

\* Update on Ctrl+C: the branch of Searching or of Browsing that handles it
PressCtrlC ==
    \/ SearchEscape(CtrlC)
    \/ SearchEnter(CtrlC)
    \/ SearchBackspace(CtrlC)
    \/ SearchDefault(CtrlC, MaxQuery)
    \/ BrowseQuit(CtrlC)

\* C39: Ctrl+C quits the program from every reachable state, Searching or
\* Browsing
C39_CtrlCQuits == ~quit => ENABLED (PressCtrlC /\ quit')

====
